---- MODULE Spec2Model ----
(***************************************************************************)
(* Model of the content-to-video pipeline of ai-workbench                  *)
(* (workflows/video-generator): the orchestrator generateVideoFromIssueOrPR *)
(* with its stages, the script functions parseScriptFromGPT,               *)
(* createFallbackScript and validateAndAdjustScript, and, each on its own, *)
(* estimateAudioDuration, generateSlideHTML, generateYouTubeMetadata,      *)
(* extractContent and the command-line entry point.                        *)
(***************************************************************************)
EXTENDS Integers, Sequences, FiniteSets, TLC

(***************************************************************************)
(* JavaScript values.  A number field read from a parsed model reply is a  *)
(* number or absent (undefined); arithmetic on undefined yields NaN.       *)
(***************************************************************************)
Num(n) == [t |-> "number", v |-> n]
NaN == [t |-> "NaN", v |-> 0]
Undefined == [t |-> "undefined", v |-> 0]

IsNum(a) == a.t = "number"

\* a + b on JavaScript values that are numbers, NaN or undefined
JsPlus(a, b) == IF IsNum(a) /\ IsNum(b) THEN Num(a.v + b.v) ELSE NaN

\* a <= b : false as soon as one side is NaN
JsLeq(a, b) == IsNum(a) /\ IsNum(b) /\ a.v <= b.v

\* a === b : NaN is equal to nothing
JsStrictEq(a, b) == IsNum(a) /\ IsNum(b) /\ a.v = b.v

\* a || 0 for a number or undefined: undefined, NaN and 0 give 0
JsOrZero(a) == IF IsNum(a) THEN a ELSE Num(0)

(***************************************************************************)
(* IEEE-754 binary64 arithmetic, as far as validateAndAdjustScript uses    *)
(* it: ratio = maxDuration / estimatedDuration, duration * ratio, and      *)
(* Math.floor.  A positive double is a significand (a sequence of bits,    *)
(* most significant first) and an exponent e: its value is m * 2^(-e).     *)
(* Both operations round to nearest, ties to even.                         *)
(***************************************************************************)
MantissaBits == 53

\* big naturals are handled in limbs of LimbBits bits, so that a limb times a
\* duration stays below 2^31
LimbBits == 14

\* quotient digits computed by the long division: enough for the leading
\* zeros of a ratio above 2^(-17), the significand and the rounding bit
QuotientLimbs == 6

DoubleZero == [t |-> "double", m |-> <<>>, e |-> 0]
DoubleNaN == [t |-> "NaN", m |-> <<>>, e |-> 0]

RECURSIVE Pow2(_)
Pow2(n) == IF n = 0 THEN 1 ELSE 2 * Pow2(n - 1)

Base == Pow2(LimbBits)

RECURSIVE ToInt(_)
\* the natural number a short bit string (most significant bit first) stands for
ToInt(bits) ==
    IF bits = <<>> THEN 0
    ELSE 2 * ToInt(SubSeq(bits, 1, Len(bits) - 1)) + bits[Len(bits)]

\* bits + 1
Increment(bits) ==
    LET n == Len(bits)
        zeros == {i \in 1..n : bits[i] = 0}
        p == CHOOSE i \in zeros : \A k \in zeros : k <= i
    IN IF zeros = {} THEN <<1>> \o [i \in 1..n |-> 0]
       ELSE [i \in 1..n |-> IF i < p THEN bits[i] ELSE IF i = p THEN 1 ELSE 0]

\* bit i of a bit string, counted from the least significant bit (i = 0)
BitFromLow(bits, i) == IF i < Len(bits) THEN bits[Len(bits) - i] ELSE 0

\* limb j (j = 0 is the least significant) of a bit string
Limb(bits, j) ==
    ToInt([k \in 1..LimbBits |-> BitFromLow(bits, LimbBits * j + (LimbBits - k))])

\* the limbs of a bit string, least significant first
Limbs(bits) ==
    [j \in 1..((Len(bits) + LimbBits - 1) \div LimbBits) |-> Limb(bits, j - 1)]

RECURSIVE CarryLimbs(_)
CarryLimbs(carry) ==
    IF carry = 0 THEN <<>> ELSE <<carry % Base>> \o CarryLimbs(carry \div Base)

RECURSIVE MulLimbs(_, _, _)
\* limbs * d with an incoming carry, least significant limb first
MulLimbs(limbs, d, carry) ==
    IF limbs = <<>> THEN CarryLimbs(carry)
    ELSE LET v == limbs[1] * d + carry
         IN <<v % Base>> \o MulLimbs(Tail(limbs), d, v \div Base)

\* bit k (k = 1 is the most significant) of limbs given most significant first
LimbBit(digits, k) ==
    (digits[(k - 1) \div LimbBits + 1] \div Pow2(LimbBits - 1 - ((k - 1) % LimbBits))) % 2

\* a bit string without its leading zeros
StripZeros(bits) ==
    LET ones == {i \in 1..Len(bits) : bits[i] = 1}
        first == CHOOSE i \in ones : \A k \in ones : i <= k
    IN IF ones = {} THEN <<>> ELSE SubSeq(bits, first, Len(bits))

\* bits * d for a natural d >= 1
MulSmall(bits, d) ==
    LET prod == MulLimbs(Limbs(bits), d, 0)
        n == Len(prod)
    IN StripZeros([k \in 1..(n * LimbBits) |->
                      LimbBit([j \in 1..n |-> prod[n + 1 - j]], k)])

\* round a bit string to MantissaBits significant bits, ties to even;
\* the result stands for q * 2^s
RoundToDouble(bits) ==
    IF Len(bits) <= MantissaBits THEN [q |-> bits, s |-> 0]
    ELSE LET q == SubSeq(bits, 1, MantissaBits)
             guard == bits[MantissaBits + 1]
             sticky == \E i \in (MantissaBits + 2)..Len(bits) : bits[i] = 1
             up == guard = 1 /\ (sticky \/ q[MantissaBits] = 1)
         IN [q |-> IF up THEN Increment(q) ELSE q, s |-> Len(bits) - MantissaBits]

RECURSIVE QuotientDigits(_, _, _)
\* long division of rem by t (0 < rem < t), one limb of the quotient a step:
\* the first n limbs behind the binary point, and the remainder left
QuotientDigits(rem, t, n) ==
    IF n = 0 THEN [digits |-> <<>>, rem |-> rem]
    ELSE LET v == rem * Base
             rest == QuotientDigits(v % t, t, n - 1)
         IN [digits |-> <<v \div t>> \o rest.digits, rem |-> rest.rem]

\* a / b for JavaScript numbers with 0 <= a < b < 2^17
JsDivide(a, b) ==
    IF ~(IsNum(a) /\ IsNum(b)) THEN DoubleNaN
    ELSE IF a.v = 0 THEN DoubleZero
    ELSE LET q == QuotientDigits(a.v, b.v, QuotientLimbs)
             total == QuotientLimbs * LimbBits
             ones == {k \in 1..total : LimbBit(q.digits, k) = 1}
             z == (CHOOSE k \in ones : \A j \in ones : k <= j) - 1
             m == [i \in 1..MantissaBits |-> LimbBit(q.digits, z + i)]
             guard == LimbBit(q.digits, z + MantissaBits + 1)
             sticky == \/ q.rem # 0
                       \/ \E k \in (z + MantissaBits + 2)..total : LimbBit(q.digits, k) = 1
             up == guard = 1 /\ (sticky \/ m[MantissaBits] = 1)
         IN [t |-> "double", m |-> IF up THEN Increment(m) ELSE m, e |-> z + MantissaBits]

\* d * r for a JavaScript value d (a natural number, or undefined) and a double r
JsTimes(d, r) ==
    IF ~IsNum(d) \/ r.t = "NaN" THEN DoubleNaN
    ELSE IF d.v = 0 \/ r.m = <<>> THEN DoubleZero
    ELSE LET p == RoundToDouble(MulSmall(r.m, d.v))
         IN [t |-> "double", m |-> p.q, e |-> r.e - p.s]

\* Math.floor of a double below 2^31
MathFloor(r) ==
    IF r.t = "NaN" THEN NaN
    ELSE IF Len(r.m) <= r.e THEN Num(0)
    ELSE Num(ToInt(SubSeq(r.m, 1, Len(r.m) - r.e)))

(***************************************************************************)
(* Strings are sequences of character classes: "w" is a non-whitespace     *)
(* character (a one-character word), "s" a whitespace character.  A string *)
(* field of a parsed reply is a string or absent.                          *)
(***************************************************************************)
Str(chars) == [t |-> "string", s |-> chars]
NoStr == [t |-> "undefined", s |-> <<>>]

RECURSIVE Words(_)
\* n one-character words separated by single blanks
Words(n) == IF n = 0 THEN <<>> ELSE IF n = 1 THEN <<"w">> ELSE <<"w", "s">> \o Words(n - 1)

Min2(a, b) == IF a <= b THEN a ELSE b

\* text.substring(0, n)
substring(chars, n) == SubSeq(chars, 1, Min2(n, Len(chars)))

(***************************************************************************)
(* The model reply (scriptText).  Its text is a sequence of tokens: "{"    *)
(* and "}" are braces, "p" is prose, and "S" stands for the member         *)
(* "sections": <value> of a JSON object, whose value is carried beside the *)
(* text: an array of section objects, an array holding a null, or a value  *)
(* that is no array.                                                       *)
(***************************************************************************)
Tokens == {"{", "}", "S", "p"}

Section(type, narration, visualNotes, duration, bulletPoints) ==
    [type |-> type, narration |-> narration, visualNotes |-> visualNotes,
     duration |-> duration, bulletPoints |-> bulletPoints]

SectionsValue(kind, items) == [kind |-> kind, items |-> items]

\* scriptText.match(/\{[\s\S]*\}/): greedy, from the first "{" to the last
\* "}" behind it; <<>> when there is no match
jsonMatch(text) ==
    LET opens == {i \in 1..Len(text) : text[i] = "{"}
        first == CHOOSE i \in opens : \A k \in opens : i <= k
        closes == {j \in 1..Len(text) : text[j] = "}" /\ j > first}
        last == CHOOSE j \in closes : \A k \in closes : k <= j
    IN IF opens = {} THEN <<>>
       ELSE IF closes = {} THEN <<>>
       ELSE SubSeq(text, first, last)

\* JSON.parse accepts the matched text when it is one object whose members
\* are "sections" members: { S ... S }
JsonValid(m) ==
    /\ Len(m) >= 2
    /\ m[1] = "{"
    /\ m[Len(m)] = "}"
    /\ \A i \in 2..(Len(m) - 1) : m[i] = "S"

\* parsed.sections is defined
HasSections(m) == \E i \in 2..(Len(m) - 1) : m[i] = "S"

RECURSIVE SumOrZero(_)
\* sections.reduce((total, section) => total + (section.duration || 0), 0)
SumOrZero(sections) ==
    IF sections = <<>> THEN Num(0)
    ELSE JsPlus(SumOrZero(SubSeq(sections, 1, Len(sections) - 1)),
                JsOrZero(sections[Len(sections)].duration))

RECURSIVE SumDurations(_)
\* sections.reduce((sum, s) => sum + s.duration, 0)
SumDurations(sections) ==
    IF sections = <<>> THEN Num(0)
    ELSE JsPlus(SumDurations(SubSeq(sections, 1, Len(sections) - 1)),
                sections[Len(sections)].duration)

\* "Welcome! Today we're looking at Issue|Pull Request number N:"
IntroWords(content) == IF content.type = "pr" THEN 9 ELSE 8

\* the fallback script with the body excerpt as the whole main narration
createFallbackScript_BareExcerpt(content) ==
    LET sections == <<
            Section("intro",
                    Str(Words(IntroWords(content)) \o <<"s">> \o content.title),
                    TRUE, Num(15), "absent"),
            Section("main",
                    Str(substring(content.body, 500)),
                    TRUE, Num(120), "array"),
            Section("summary",
                    Str(Words(5) \o <<"s">> \o content.title \o <<"w", "s">> \o Words(9)),
                    TRUE, Num(30), "absent") >>
    IN [title |-> content.title,
        sections |-> sections,
        estimatedDuration |-> SumDurations(sections),
        sourceType |-> content.type,
        sourceNumber |-> content.number]

\* content.body.split('\n').filter(l => l.trim()).slice(0, 5) is an array
\* (possibly empty) whatever the body is
createFallbackScript(content) ==
    LET sections == <<
            Section("intro",
                    Str(Words(IntroWords(content)) \o <<"s">> \o content.title),
                    TRUE, Num(15), "absent"),
            Section("main",
                    Str(substring(content.body, 500) \o <<"w">>),
                    TRUE, Num(120), "array"),
            Section("summary",
                    Str(Words(5) \o <<"s">> \o content.title \o <<"w", "s">> \o Words(9)),
                    TRUE, Num(30), "absent") >>
    IN [title |-> content.title,
        sections |-> sections,
        estimatedDuration |-> SumDurations(sections),
        sourceType |-> content.type,
        sourceNumber |-> content.number]

\* the try block of parseScriptFromGPT throws: no match, JSON.parse fails,
\* parsed.sections is undefined or has no reduce, or an element is null
ParseThrows(reply) ==
    LET m == jsonMatch(reply.text)
    IN \/ m = <<>>
       \/ ~JsonValid(m)
       \/ ~HasSections(m)
       \/ reply.sections.kind # "array"

\* parseScriptFromGPT with the sections read as (parsed.sections || []): a
\* reply without a sections member yields an empty script, not the fallback
parseScriptFromGPT_EmptySections(reply, content) ==
    IF JsonValid(jsonMatch(reply.text)) /\ ~HasSections(jsonMatch(reply.text))
    THEN [title |-> content.title, sections |-> <<>>,
          estimatedDuration |-> Num(0),
          sourceType |-> content.type, sourceNumber |-> content.number]
    ELSE IF ParseThrows(reply) THEN createFallbackScript(content)
    ELSE [title |-> content.title,
          sections |-> reply.sections.items,
          estimatedDuration |-> SumOrZero(reply.sections.items),
          sourceType |-> content.type,
          sourceNumber |-> content.number]

parseScriptFromGPT(reply, content) ==
    IF ParseThrows(reply) THEN createFallbackScript(content)
    ELSE [title |-> content.title,
          sections |-> reply.sections.items,
          estimatedDuration |-> SumOrZero(reply.sections.items),
          sourceType |-> content.type,
          sourceNumber |-> content.number]

validateAndAdjustScript(script, maxDuration) ==
    IF JsLeq(script.estimatedDuration, Num(maxDuration)) THEN script
    ELSE LET ratio == JsDivide(Num(maxDuration), script.estimatedDuration)
             adjustedSections ==
                 [i \in 1..Len(script.sections) |->
                     [script.sections[i] EXCEPT
                         !.duration = MathFloor(JsTimes(@, ratio))]]
         IN [script EXCEPT !.sections = adjustedSections,
                           !.estimatedDuration = SumDurations(adjustedSections)]

(***************************************************************************)
(* generateScript: the completion request fails (network error, or a       *)
(* non-success status), or its body has no choices[0].message.content, or  *)
(* it carries a reply, which is parsed.                                    *)
(***************************************************************************)
NoScript ==
    [title |-> <<>>, sections |-> <<>>, estimatedDuration |-> Num(0),
     sourceType |-> "none", sourceNumber |-> 0]

Return(value) == [threw |-> FALSE, error |-> "", value |-> value]
Throw(message) == [threw |-> TRUE, error |-> message, value |-> NoScript]

generateScript(response, content) ==
    IF response.kind = "network" THEN Throw("fetch failed")
    ELSE IF response.kind = "status" THEN Throw("OpenAI API error")
    ELSE IF response.kind = "noChoices" THEN Throw("TypeError")
    ELSE Return(parseScriptFromGPT(response.reply, content))

(***************************************************************************)
(* Inputs of the script functions.                                         *)
(***************************************************************************)
MaxSections == 2
MaxReplyLen == 4

SeqsUpTo(S, n) == UNION {[1..k -> S] : k \in 0..n}

DurationValues == {Num(0), Num(7), Num(15), Num(22), Undefined}

PlainSection(duration) == Section("main", Str(<<"w">>), TRUE, duration, "absent")

\* the script of five sections of 15, 120, 45, 60 and 15 seconds
LongSections ==
    << PlainSection(Num(15)), PlainSection(Num(120)), PlainSection(Num(45)),
       PlainSection(Num(60)), PlainSection(Num(15)) >>

SectionArrays ==
    {[i \in 1..Len(ds) |-> PlainSection(ds[i])] : ds \in SeqsUpTo(DurationValues, MaxSections)}
        \cup {LongSections}

SectionsValues ==
    {SectionsValue("array", a) : a \in SectionArrays}
        \cup {SectionsValue("notArray", <<>>), SectionsValue("hasNull", <<>>)}

Replies ==
    {[text |-> t, sections |-> SectionsValue("array", LongSections)] :
        t \in SeqsUpTo(Tokens, MaxReplyLen)}
    \cup {[text |-> <<"{", "S", "}">>, sections |-> v] : v \in SectionsValues}

NoReply == [text |-> <<>>, sections |-> SectionsValue("notArray", <<>>)]

Responses ==
    {[kind |-> "ok", reply |-> r] : r \in Replies}
    \cup {[kind |-> k, reply |-> NoReply] : k \in {"network", "status", "noChoices"}}

Contents ==
    { [type |-> "issue", number |-> 6, title |-> <<"w">>, body |-> <<>>],
      [type |-> "pr", number |-> 6, title |-> <<"w", "s", "w">>, body |-> <<"w", "s", "w">>] }

\* the ceiling the orchestrator passes (600), the one of the five-section
\* example (170) and a small one
Ceilings == {15, 170, 600}

(***************************************************************************)
(* The orchestrator generateVideoFromIssueOrPR and the stages it awaits.   *)
(* Every external call (tracker, completion, speech, encoder, token        *)
(* exchange, upload, link post) is a suspension point: `pending` names the *)
(* call the run is blocked on, and the action of a call models its return  *)
(* together with all the code that runs up to the next call or up to the   *)
(* return of the orchestrator.  The encoder is an external process whose   *)
(* exit status is not determined by the program.  File-system operations   *)
(* are taken not to fail.                                                  *)
(***************************************************************************)
MaxDuration == 600

File(dir, name, idx, ext) == [dir |-> dir, name |-> name, idx |-> idx, ext |-> ext]
NoFile == File("", "", 0, "")
ContentFile == File("work", "content", 0, "json")
ScriptFile == File("work", "script", 0, "json")
VideoFile == File("output", "video", 0, "mp4")
AudioFile(i) == File("audio", "section", i, "mp3")
SlideHtml(i) == File("slides", "slide", i, "html")
SlidePlaceholder(i) == File("slides", "slide", i, "txt")
SlideImagePath(i) == File("slides", "slide", i, "png")

WorkingDirs == {"work", "audio", "slides", "output"}
IntermediateDirs == {"audio", "slides"}

\* a credential is TRUE when the operator supplied a non-empty value
Configs ==
    [type : {"issue", "pr"}, number : {6},
     uploadToYouTube : BOOLEAN, youtubeClientId : BOOLEAN,
     youtubeClientSecret : BOOLEAN, youtubeRefreshToken : BOOLEAN,
     postToGitHub : BOOLEAN, keepIntermediateFiles : BOOLEAN]

\* the condition of step 6
PublishConfigured_NoRefreshToken(cfg) ==
    cfg.uploadToYouTube /\ cfg.youtubeClientId /\ cfg.youtubeClientSecret

PublishConfigured(cfg) ==
    /\ cfg.uploadToYouTube
    /\ cfg.youtubeClientId
    /\ cfg.youtubeClientSecret
    /\ cfg.youtubeRefreshToken

\* the intermediate directories are removed unless retention was requested
KeptDirs_Always(cfg, d) == d \ IntermediateDirs

KeptDirs(cfg, d) == IF cfg.keepIntermediateFiles THEN d ELSE d \ IntermediateDirs

KeptFiles(cfg, f) == {x \in f : x.dir \in KeptDirs(cfg, WorkingDirs)}

\* responses of the tracker to the primary fetch; a null body reads as ''
TrackerBodies == {<<>>, <<"w", "s", "w">>}
PrimaryResponses ==
    {[kind |-> "ok", body |-> b] : b \in TrackerBodies}
        \cup {[kind |-> k, body |-> <<>>] : k \in {"status", "network"}}
Outcomes == {"ok", "status", "network"}
InitOutcomes == Outcomes \cup {"noLocation"}
\* the token exchange: const data = await response.json(); return
\* data.access_token, which a success response without the field leaves undefined
TokenOutcomes == Outcomes \cup {"noToken"}
ExitOutcomes == {"ok", "nonzero"}

NoContent ==
    [type |-> "none", number |-> 0, title |-> <<>>, body |-> <<>>,
     comments |-> 0, commits |-> 0]

\* sections of the replies the pipeline is run on
Narrated == Section("intro", Str(<<"w", "s", "w">>), TRUE, Num(15), "absent")
Blank == Section("main", Str(<<"s">>), TRUE, Num(22), "array")
Silent == Section("main", NoStr, TRUE, Num(7), "absent")
Unrenderable == Section("main", NoStr, FALSE, Num(7), "absent")
Long == Section("main", Str(<<"w">>), TRUE, Num(700), "absent")

PipelineReplies ==
    {[text |-> <<"{", "S", "}">>, sections |-> SectionsValue("array", a)] :
        a \in {<<Narrated, Long>>, <<Narrated, Blank>>, <<Silent, Narrated>>,
               <<Narrated, Unrenderable>>, <<Blank>>, <<>>}}
        \cup {[text |-> <<"p">>, sections |-> SectionsValue("notArray", <<>>)]}

PipelineResponses ==
    {[kind |-> "ok", reply |-> r] : r \in PipelineReplies}
        \cup {[kind |-> k, reply |-> NoReply] : k \in {"network", "status", "noChoices"}}

\* the skip test without the trim: only an absent or empty narration is skipped
Eligible_NoTrim(section) ==
    /\ section.narration.t = "string"
    /\ section.narration.s # <<>>

\* generateAudio skips a section when !narration || narration.trim() is empty
Eligible(section) ==
    /\ section.narration.t = "string"
    /\ \E i \in 1..Len(section.narration.s) : section.narration.s[i] # "s"

\* the first section at or after position `from` that gets a speech call
NextEligible(sections, from) ==
    LET rest == {i \in from..Len(sections) : Eligible(sections[i])}
    IN IF rest = {} THEN Len(sections) + 1
       ELSE CHOOSE i \in rest : \A k \in rest : i <= k

\* text.split(/\s+/).length: one more than the number of whitespace runs
wordCount(chars) ==
    1 + Cardinality({i \in 1..Len(chars) :
                        chars[i] = "s" /\ (i = 1 \/ chars[i - 1] # "s")})

\* Math.ceil(wordCount / (2.5 * speed)); the speed is given in quarters
\* (4 is speed 1.0), for which 2.5 * speed is exact in binary64 and the
\* quotient 8 * wordCount / (5 * quarters) rounds to the same ceiling
estimateAudioDuration(chars, quarters) ==
    (8 * wordCount(chars) + 5 * quarters - 1) \div (5 * quarters)

\* the segment with the number of segments pushed before it as sectionIndex
Segment_Renumbered(sections, i) ==
    [sectionIndex |-> Cardinality({j \in 1..(i - 1) : Eligible(sections[j])}),
     audioPath |-> AudioFile(i - 1),
     duration |-> estimateAudioDuration(sections[i].narration.s, 4),
     text |-> sections[i].narration.s]

\* the segment pushed for the section at position i (sectionIndex i - 1)
Segment(sections, i) ==
    [sectionIndex |-> i - 1, audioPath |-> AudioFile(i - 1),
     duration |-> estimateAudioDuration(sections[i].narration.s, 4),
     text |-> sections[i].narration.s]

RECURSIVE SumSegments_ExceptLast(_)
\* the sum with the last segment left out
SumSegments_ExceptLast(segs) ==
    IF Len(segs) <= 1 THEN 0
    ELSE SumSegments_ExceptLast(SubSeq(segs, 1, Len(segs) - 1))
            + segs[Len(segs) - 1].duration

RECURSIVE SumSegments(_)
\* segments.reduce((sum, seg) => sum + seg.duration, 0)
SumSegments(segs) ==
    IF segs = <<>> THEN 0
    ELSE SumSegments(SubSeq(segs, 1, Len(segs) - 1)) + segs[Len(segs)].duration

\* generateSlideHTML throws a TypeError: bulletPoints without map, or the
\* default layout reading narration.substring of an absent narration
SlideThrows(section) ==
    IF section.type \in {"intro", "code"} THEN FALSE
    ELSE IF section.type \in {"summary", "outro"} THEN section.bulletPoints = "notArray"
    ELSE IF section.bulletPoints = "array" THEN FALSE
    ELSE IF section.bulletPoints = "notArray" THEN TRUE
    ELSE ~section.visualNotes /\ section.narration.t # "string"

\* the first section whose slide cannot be built, Len + 1 when there is none
FirstThrowing(sections) ==
    LET bad == {i \in 1..Len(sections) : SlideThrows(sections[i])}
    IN IF bad = {} THEN Len(sections) + 1
       ELSE CHOOSE i \in bad : \A k \in bad : i <= k

\* the files generateSlides has written after k sections: the markup and the
\* placeholder, which is a .txt file beside the .png path
SlideFiles(k) ==
    {SlideHtml(i - 1) : i \in 1..k} \cup {SlidePlaceholder(i - 1) : i \in 1..k}

Slide(i) == [sectionIndex |-> i - 1, imagePath |-> SlideImagePath(i - 1)]

Fps == 30

\* buildFilterComplex: for each slide, by list position, that has an audio
\* segment at the same position, a stream [v<index>] that loops the slide
\* input <index> for fps * duration frames of that segment; then the
\* concatenation of [v0] .. [v<slides - 1>], or the copy of [v0] for at most
\* one slide
buildFilterComplex(audioSegments, slideList, fps) ==
    [loops |-> [i \in 1..Min2(Len(slideList), Len(audioSegments)) |->
                   [input |-> i - 1, audio |-> i - 1, label |-> i - 1,
                    frames |-> fps * audioSegments[i].duration]],
     concat |-> IF Len(slideList) > 1
                THEN [i \in 1..Len(slideList) |-> i - 1]
                ELSE <<0>>]

NoVideo == [videoPath |-> NoFile, duration |-> 0]
NoUpload == [defined |-> FALSE]
Uploaded == [defined |-> TRUE]
NoResult ==
    [returned |-> FALSE, success |-> FALSE, error |-> "",
     videoPath |-> NoFile, uploadResult |-> NoUpload]

StageOrder ==
    << "Extracting", "ScriptGenerating", "AudioSynthesizing",
       "SlideRendering", "Composing", "Publishing" >>

VARIABLES fnPc, fnResponse, fnContent, fnCeiling, fnGenerated, fnAdjusted, fnReadjusted

VARIABLES stage, pending, sectionIndex, config, locals, content, script,
          segments, totalDuration, slides, video, upload, dirs, files, result,
          calls, started, completed, thrown, written

fnVars == <<fnPc, fnResponse, fnContent, fnCeiling, fnGenerated, fnAdjusted, fnReadjusted>>

\* estimateAudioDuration exercised on its own: the text, the speed in
\* quarters, the estimate and the estimate at twice the speed
VARIABLES auPc, auText, auSpeed, auEstimate, auDoubled

auVars == <<auPc, auText, auSpeed, auEstimate, auDoubled>>

\* generateSlideHTML exercised on its own: the script title, the section
\* and the markup built for it
VARIABLES slPc, slTitle, slSection, slMarkup

slVars == <<slPc, slTitle, slSection, slMarkup>>

\* generateYouTubeMetadata exercised on its own: the script, the default
\* tags of the caller and the metadata built
VARIABLES mdPc, mdScript, mdDefaultTags, mdMetadata

mdVars == <<mdPc, mdScript, mdDefaultTags, mdMetadata>>

\* extractContent exercised on its own: the awaited fetch, the kind hint,
\* the fetches sent with their outcome, and the record returned
VARIABLES exPc, exHint, exNumber, exCalls, exRecord

exVars == <<exPc, exHint, exNumber, exCalls, exRecord>>

\* the command-line entry point: its position, the arguments, the
\* environment, the dependencies found and the exit code
VARIABLES cliPc, cliArgs, cliEnv, cliDeps, exitCode

cliVars == <<cliPc, cliArgs, cliEnv, cliDeps, exitCode>>

\* the variables of the functions exercised on their own
harnessVars == <<fnVars, auVars, slVars, mdVars, exVars, cliVars>>

\* the values the orchestrator computes
data == <<sectionIndex, locals, content, script, segments, totalDuration, slides, video, upload>>

\* the working directory
disk == <<dirs, files>>

\* what has happened so far: the external calls with their outcome, the
\* stages announced and completed, the errors thrown, the files ever written
logs == <<calls, started, completed, thrown, written>>

pipeVars == <<stage, pending, config, result, data, disk, logs>>

vars == <<harnessVars, pipeVars>>

\* extractContent is not being exercised
ExIdle ==
    /\ exPc = "idle"
    /\ exHint = "issue"
    /\ exNumber = 0
    /\ exCalls = <<>>
    /\ exRecord = NoContent

\* the run was not started from the command line
CliIdle ==
    /\ cliPc = "idle"
    /\ cliArgs = [mode |-> "generate", type |-> "undefined", number |-> 0,
                  keepFiles |-> FALSE]
    /\ cliEnv = [githubToken |-> FALSE, openaiApiKey |-> FALSE,
                 youtubeClientId |-> FALSE, youtubeClientSecret |-> FALSE,
                 youtubeRefreshToken |-> FALSE, uploadToYouTube |-> FALSE,
                 postToGitHub |-> FALSE]
    /\ cliDeps = [ffmpeg |-> "unchecked", ffprobe |-> "unchecked"]
    /\ exitCode = -1

\* generateYouTubeMetadata is not being exercised
MdIdle ==
    /\ mdPc = "idle"
    /\ mdScript = [title |-> <<>>, description |-> <<>>, sections |-> <<>>]
    /\ mdDefaultTags = <<>>
    /\ mdMetadata = [tags |-> <<>>, timeline |-> <<>>]

\* generateSlideHTML is not being exercised
SlIdle ==
    /\ slPc = "idle"
    /\ slTitle = <<>>
    /\ slSection = [type |-> "main", heading |-> <<>>, narration |-> <<>>,
                    visualNotes |-> NoStr, codeSnippet |-> NoStr,
                    bulletPoints |-> [present |-> FALSE, items |-> <<>>]]
    /\ slMarkup = <<>>

\* estimateAudioDuration is not being exercised
AuIdle ==
    /\ auPc = "idle"
    /\ auText = <<>>
    /\ auSpeed = 4
    /\ auEstimate = 0
    /\ auDoubled = 0

\* the script functions are not being exercised
FnIdle ==
    /\ fnPc = "idle"
    /\ fnResponse = [kind |-> "network", reply |-> NoReply]
    /\ fnContent = NoContent
    /\ fnCeiling = MaxDuration
    /\ fnGenerated = Return(NoScript)
    /\ fnAdjusted = NoScript
    /\ fnReadjusted = NoScript

\* no run: `stage` is "Idle" for ever
PipeIdle ==
    /\ stage = "Idle"
    /\ pending = "none"
    /\ sectionIndex = 0
    /\ config \in {c \in Configs : c.type = "issue" /\ ~c.uploadToYouTube
                      /\ ~c.youtubeClientId /\ ~c.youtubeClientSecret
                      /\ ~c.youtubeRefreshToken /\ ~c.postToGitHub
                      /\ ~c.keepIntermediateFiles}
    /\ locals = NoContent
    /\ content = NoContent
    /\ script = NoScript
    /\ segments = <<>>
    /\ totalDuration = 0
    /\ slides = <<>>
    /\ video = NoVideo
    /\ upload = NoUpload
    /\ dirs = {}
    /\ files = {}
    /\ result = NoResult
    /\ calls = <<>>
    /\ started = <<>>
    /\ completed = <<>>
    /\ thrown = <<>>
    /\ written = {}

FnInit ==
    /\ fnPc = "start"
    /\ fnResponse \in Responses
    /\ fnContent \in Contents
    /\ fnCeiling \in Ceilings
    /\ fnGenerated = Return(NoScript)
    /\ fnAdjusted = NoScript
    /\ fnReadjusted = NoScript
    /\ PipeIdle
    /\ AuIdle
    /\ SlIdle
    /\ MdIdle
    /\ ExIdle
    /\ CliIdle

\* script = await generateScript(content, ...)
CallGenerateScript ==
    /\ fnPc = "start"
    /\ fnGenerated' = generateScript(fnResponse, fnContent)
    /\ fnPc' = IF fnGenerated'.threw THEN "threw" ELSE "generated"
    /\ UNCHANGED <<fnResponse, fnContent, fnCeiling, fnAdjusted, fnReadjusted>>
    /\ UNCHANGED <<pipeVars, auVars, slVars, mdVars, exVars, cliVars>>

\* script = validateAndAdjustScript(script, ceiling)
CallValidateAndAdjust ==
    /\ fnPc = "generated"
    /\ fnAdjusted' = validateAndAdjustScript(fnGenerated.value, fnCeiling)
    /\ fnPc' = "adjusted"
    /\ UNCHANGED <<fnResponse, fnContent, fnCeiling, fnGenerated, fnReadjusted>>
    /\ UNCHANGED <<pipeVars, auVars, slVars, mdVars, exVars, cliVars>>

\* validateAndAdjustScript applied to its own result
CallValidateAndAdjustAgain ==
    /\ fnPc = "adjusted"
    /\ fnReadjusted' = validateAndAdjustScript(fnAdjusted, fnCeiling)
    /\ fnPc' = "readjusted"
    /\ UNCHANGED <<fnResponse, fnContent, fnCeiling, fnGenerated, fnAdjusted>>
    /\ UNCHANGED <<pipeVars, auVars, slVars, mdVars, exVars, cliVars>>

FnNext == CallGenerateScript \/ CallValidateAndAdjust \/ CallValidateAndAdjustAgain

SpecScript == FnInit /\ [][FnNext]_vars

(***************************************************************************)
(* estimateAudioDuration on its own: every text of up to MaxTextLen        *)
(* characters (word characters and whitespace) at every speed of up to     *)
(* MaxSpeedQuarters quarters, and at twice that speed.                     *)
(***************************************************************************)
MaxTextLen == 4
MaxSpeedQuarters == 8

Texts == SeqsUpTo({"w", "s"}, MaxTextLen)

AudioInit ==
    /\ auPc = "start"
    /\ auText \in Texts
    /\ auSpeed \in 1..MaxSpeedQuarters
    /\ auEstimate = 0
    /\ auDoubled = 0
    /\ FnIdle
    /\ PipeIdle
    /\ SlIdle
    /\ MdIdle
    /\ ExIdle
    /\ CliIdle

\* estimateAudioDuration(text, speed)
CallEstimate ==
    /\ auPc = "start"
    /\ auEstimate' = estimateAudioDuration(auText, auSpeed)
    /\ auPc' = "estimated"
    /\ UNCHANGED <<auText, auSpeed, auDoubled, fnVars, pipeVars, slVars, mdVars, exVars, cliVars>>

\* estimateAudioDuration(text, 2 * speed)
CallEstimateDoubled ==
    /\ auPc = "estimated"
    /\ auDoubled' = estimateAudioDuration(auText, 2 * auSpeed)
    /\ auPc' = "doubled"
    /\ UNCHANGED <<auText, auSpeed, auEstimate, fnVars, pipeVars, slVars, mdVars, exVars, cliVars>>

AudioNext == CallEstimate \/ CallEstimateDoubled

SpecAudio == AudioInit /\ [][AudioNext]_vars

(***************************************************************************)
(* generateSlideHTML on its own.  A text of the script is a sequence of    *)
(* characters: "w" is a plain character and "<" one of the characters      *)
(* & < > " ' that have a meaning in markup; "e" is the entity escapeHTML   *)
(* puts in its place.  The markup is the list of the texts embedded in it, *)
(* each with the field of the script it comes from.                        *)
(***************************************************************************)
MaxBullets == 1

\* text.replace(/&/g, '&amp;') ... .replace(/'/g, '&#039;')
escapeHTML(chars) == [i \in 1..Len(chars) |-> IF chars[i] = "<" THEN "e" ELSE chars[i]]

Embedded(field, chars) == [field |-> field, text |-> chars]

OptionalTexts == {NoStr} \cup {Str(t) : t \in {<<"w">>, <<"<">>}}
BulletLists ==
    {[present |-> FALSE, items |-> <<>>]}
        \cup {[present |-> TRUE, items |-> b] : b \in SeqsUpTo({<<"w">>, <<"<">>}, MaxBullets)}

SlideSections ==
    [type : {"intro", "main", "code", "summary", "outro"},
     heading : {<<"w">>, <<"<">>},
     narration : {<<"w">>, <<"<">>},
     visualNotes : OptionalTexts,
     codeSnippet : OptionalTexts,
     bulletPoints : BulletLists]

\* the <li> items: bulletPoints.map(point => ... escapeHTML(point) ...)
BulletItems(points) == [i \in 1..Len(points) |-> Embedded("bulletPoints", escapeHTML(points[i]))]

\* generateSlideHTML: the texts the markup of a section embeds, by layout
generateSlideHTML(section, title) ==
    IF section.type = "intro"
    THEN << Embedded("title", title), Embedded("heading", section.heading) >>
    ELSE IF section.type = "code"
    THEN << Embedded("heading", section.heading) >>
            \o (IF section.codeSnippet.t = "string"
                THEN << Embedded("codeSnippet", escapeHTML(section.codeSnippet.s)) >>
                ELSE << >>)
    ELSE IF section.type \in {"summary", "outro"}
    THEN << Embedded("heading", section.heading) >>
            \o (IF section.bulletPoints.present
                THEN BulletItems(section.bulletPoints.items)
                ELSE << >>)
    ELSE << Embedded("heading", section.heading) >>
            \o (IF section.bulletPoints.present
                THEN BulletItems(section.bulletPoints.items)
                ELSE IF section.visualNotes.t = "string"
                THEN << Embedded("visualNotes", escapeHTML(section.visualNotes.s)) >>
                ELSE << Embedded("narration",
                                 escapeHTML(substring(section.narration, 200))) >>)

SlidesInit ==
    /\ slPc = "start"
    /\ slTitle \in {<<"w">>, <<"<">>}
    /\ slSection \in SlideSections
    /\ slMarkup = <<>>
    /\ FnIdle
    /\ AuIdle
    /\ MdIdle
    /\ ExIdle
    /\ CliIdle
    /\ PipeIdle

\* const html = generateSlideHTML(section, i, script, ...)
CallGenerateSlideHTML ==
    /\ slPc = "start"
    /\ slMarkup' = generateSlideHTML(slSection, slTitle)
    /\ slPc' = "built"
    /\ UNCHANGED <<slTitle, slSection, fnVars, auVars, mdVars, exVars, cliVars, pipeVars>>

SlidesNext == CallGenerateSlideHTML

SpecSlides == SlidesInit /\ [][SlidesNext]_vars

(***************************************************************************)
(* generateYouTubeMetadata on its own.  Here a text is a sequence of       *)
(* characters and a tag is a text; a timestamp is the text formatTimestamp *)
(* returns.  Of a section the narration and the duration are kept.         *)
(***************************************************************************)
MaxMdSections == 3

\* the keywords of extractTags, in the order of the source
keywords ==
    << <<"g", "i", "t", "h", "u", "b">>,
       <<"v", "e", "r", "c", "e", "l">>,
       <<"n", "e", "x", "t", "j", "s">>,
       <<"r", "e", "a", "c", "t">>,
       <<"t", "y", "p", "e", "s", "c", "r", "i", "p", "t">>,
       <<"j", "a", "v", "a", "s", "c", "r", "i", "p", "t">>,
       <<"a", "i">>,
       <<"o", "p", "e", "n", "a", "i">>,
       <<"g", "p", "t">>,
       <<"t", "t", "s">>,
       <<"a", "u", "t", "o", "m", "a", "t", "i", "o", "n">>,
       <<"w", "o", "r", "k", "f", "l", "o", "w">>,
       <<"d", "e", "p", "l", "o", "y", "m", "e", "n", "t">>,
       <<"d", "e", "v", "o", "p", "s">>,
       <<"c", "i", "/", "c", "d">>,
       <<"d", "o", "c", "k", "e", "r">>,
       <<"k", "u", "b", "e", "r", "n", "e", "t", "e", "s">>,
       <<"a", "p", "i">>,
       <<"r", "e", "s", "t">>,
       <<"g", "r", "a", "p", "h", "q", "l">>,
       <<"d", "a", "t", "a", "b", "a", "s", "e">>,
       <<"s", "u", "p", "a", "b", "a", "s", "e">>,
       <<"d", "i", "f", "y">> >>

\* String.prototype.toLowerCase on the letters the model's texts use
toLowerCase(chars) ==
    [i \in 1..Len(chars) |->
        CASE chars[i] = "A" -> "a"
          [] chars[i] = "I" -> "i"
          [] chars[i] = "P" -> "p"
          [] chars[i] = "D" -> "d"
          [] chars[i] = "O" -> "o"
          [] chars[i] = "T" -> "t"
          [] OTHER -> chars[i]]

\* haystack.includes(needle)
includes(haystack, needle) ==
    \E i \in 0..(Len(haystack) - Len(needle)) :
        SubSeq(haystack, i + 1, i + Len(needle)) = needle

RECURSIVE join(_)
\* texts.join(' ')
join(texts) ==
    IF texts = <<>> THEN <<>>
    ELSE IF Len(texts) = 1 THEN texts[1]
    ELSE join(SubSeq(texts, 1, Len(texts) - 1)) \o <<" ">> \o texts[Len(texts)]

\* list.slice(0, n)
slice(list, n) == SubSeq(list, 1, Min2(n, Len(list)))

\* Array.from(new Set(list)) with every element kept, a repeated one too
ArrayFromSet_KeepAll(list) == list

\* Array.from(new Set(list)): the first occurrence of every element, in order
ArrayFromSet(list) ==
    LET keep == {i \in 1..Len(list) : \A j \in 1..(i - 1) : list[j] # list[i]}
    IN [k \in 1..Cardinality(keep) |->
           list[CHOOSE i \in keep : Cardinality({j \in keep : j <= i}) = k]]

\* extractTags: the keywords found in `${title} ${description} ${narrations}`
extractTags(s) ==
    LET text == s.title \o <<" ">> \o s.description \o <<" ">>
                    \o join([i \in 1..Len(s.sections) |-> s.sections[i].narration])
    IN slice(SelectSeq(keywords,
                       LAMBDA keyword : includes(toLowerCase(text), toLowerCase(keyword))),
             30)

\* seconds.toString() of a non-negative integer below 100: its decimal digits
DigitChars == <<"0", "1", "2", "3", "4", "5", "6", "7", "8", "9">>

RECURSIVE toString(_)
toString(n) ==
    IF n < 10 THEN <<DigitChars[n + 1]>>
    ELSE toString(n \div 10) \o <<DigitChars[(n % 10) + 1]>>

\* text.padStart(2, '0')
padStart(chars) == IF Len(chars) < 2 THEN <<"0">> \o chars ELSE chars

\* formatTimestamp: `${mins}:${secs.toString().padStart(2, '0')}`; Math.floor
\* of NaN is NaN, which prints as NaN
formatTimestamp(seconds) ==
    IF IsNum(seconds)
    THEN toString(seconds.v \div 60) \o <<":">> \o padStart(toString(seconds.v % 60))
    ELSE <<"N", "a", "N", ":", "N", "a", "N">>

\* generateDescription: the timestamp written before each section's heading;
\* currentTime += section.duration after each line
generateDescription(s) ==
    [i \in 1..Len(s.sections) |->
        formatTimestamp(SumDurations(SubSeq(s.sections, 1, i - 1)))]

\* generateYouTubeMetadata with the tag lists concatenated
generateYouTubeMetadata_Concat(s, defaultTags) ==
    [tags |-> slice(ArrayFromSet_KeepAll(defaultTags \o extractTags(s)), 500),
     timeline |-> generateDescription(s)]

\* generateYouTubeMetadata: the tags and the timeline of the description
generateYouTubeMetadata(s, defaultTags) ==
    [tags |-> slice(ArrayFromSet(defaultTags \o extractTags(s)), 500),
     timeline |-> generateDescription(s)]

\* sections as the completion reply gives them: a narration and a duration,
\* which may be missing
MdSections ==
    { [narration |-> <<"U", "s", "e", " ", "A", "P", "I">>, duration |-> Num(15)],
      [narration |-> <<"a", "i">>, duration |-> Num(120)],
      [narration |-> <<"x">>, duration |-> Num(30)],
      [narration |-> <<"i">>, duration |-> Undefined] }

MdScripts ==
    [title : {<<"a">>, <<"A", "i">>, <<"a", "p">>},
     description : {<<"i">>, <<"d", "o", "c", "k", "e", "r">>},
     sections : SeqsUpTo(MdSections, MaxMdSections)]

\* no tags, the tags the orchestrator passes, and lists that repeat a tag
\* or name a keyword
DefaultTagLists ==
    { <<>>,
      << <<"A", "I">>, <<"T", "u", "t", "o", "r", "i", "a", "l">>,
         <<"D", "e", "v", "O", "p", "s">> >>,
      << <<"a", "i">>, <<"a", "i">> >>,
      << <<"a", "p", "i">>, <<"A", "I">> >> }

MetadataInit ==
    /\ mdPc = "start"
    /\ mdScript \in MdScripts
    /\ mdDefaultTags \in DefaultTagLists
    /\ mdMetadata = [tags |-> <<>>, timeline |-> <<>>]
    /\ FnIdle
    /\ AuIdle
    /\ SlIdle
    /\ ExIdle
    /\ CliIdle
    /\ PipeIdle

\* const metadata = generateYouTubeMetadata(script, defaultTags, ...)
CallGenerateYouTubeMetadata ==
    /\ mdPc = "start"
    /\ mdMetadata' = generateYouTubeMetadata(mdScript, mdDefaultTags)
    /\ mdPc' = "built"
    /\ UNCHANGED <<mdScript, mdDefaultTags, fnVars, auVars, slVars, exVars, cliVars, pipeVars>>

MetadataNext == CallGenerateYouTubeMetadata

SpecMetadata == MetadataInit /\ [][MetadataNext]_vars

(***************************************************************************)
(* extractContent on its own, with and without the kind hint.  Each fetch  *)
(* of extractPullRequest and extractIssue is one step; a fetch returns ok, *)
(* a non-success status, or fails with a network error.                    *)
(***************************************************************************)
ExHints == {"issue", "pr", "undefined"}

ExNumbers == {6, 7}

PrOps == {"pr.primary", "pr.comments", "pr.commits"}

IssueOps == {"issue.primary", "issue.comments"}

\* the awaited fetch has returned with this outcome
ExReturned(outcome) == [exCalls EXCEPT ![Len(exCalls)].outcome = outcome]

\* a fetch is sent
ExSent(log, op) == Append(log, [op |-> op, outcome |-> "pending"])

\* the error leaves extractContent
ExThrows(outcome) ==
    /\ exPc' = "thrown"
    /\ exCalls' = ExReturned(outcome)
    /\ exRecord' = NoContent

\* the catch block of extractContent with the issue fetch tried whatever the hint
PullRequestFails_FallBack(outcome) ==
    /\ exPc' = "issue.primary"
    /\ exCalls' = ExSent(ExReturned(outcome), "issue.primary")
    /\ exRecord' = NoContent

\* extractPullRequest throws: the catch block of extractContent raises the
\* error again when the hint is 'pr', otherwise extractIssue is called
PullRequestFails(outcome) ==
    IF exHint = "pr" THEN ExThrows(outcome)
    ELSE /\ exPc' = "issue.primary"
         /\ exCalls' = ExSent(ExReturned(outcome), "issue.primary")
         /\ exRecord' = NoContent

ExtractInit ==
    /\ exPc = "called"
    /\ exHint \in ExHints
    /\ exNumber \in ExNumbers
    /\ exCalls = <<>>
    /\ exRecord = NoContent
    /\ FnIdle
    /\ AuIdle
    /\ SlIdle
    /\ MdIdle
    /\ CliIdle
    /\ PipeIdle

\* if (type === 'pr' || type === undefined) extractPullRequest, else extractIssue
ExtractContentCalled ==
    /\ exPc = "called"
    /\ exPc' = IF exHint \in {"pr", "undefined"} THEN "pr.primary" ELSE "issue.primary"
    /\ exCalls' = ExSent(exCalls, exPc')
    /\ UNCHANGED <<exHint, exNumber, exRecord, fnVars, auVars, slVars, mdVars, cliVars, pipeVars>>

\* the pull request fetch returns
PullRequestFetched ==
    /\ exPc = "pr.primary"
    /\ \E r \in PrimaryResponses :
          IF r.kind # "ok" THEN PullRequestFails(r.kind)
          ELSE /\ exRecord' = [type |-> "pr", number |-> exNumber, title |-> <<"w">>,
                               body |-> r.body, comments |-> 0, commits |-> 0]
               /\ exPc' = "pr.comments"
               /\ exCalls' = ExSent(ExReturned("ok"), "pr.comments")
    /\ UNCHANGED <<exHint, exNumber, fnVars, auVars, slVars, mdVars, cliVars, pipeVars>>

\* the comment fetch of the pull request returns
PullRequestCommentsFetched ==
    /\ exPc = "pr.comments"
    /\ \E o \in Outcomes :
          IF o = "network" THEN PullRequestFails(o)
          ELSE /\ exRecord' = [exRecord EXCEPT !.comments = IF o = "ok" THEN 1 ELSE 0]
               /\ exPc' = "pr.commits"
               /\ exCalls' = ExSent(ExReturned(o), "pr.commits")
    /\ UNCHANGED <<exHint, exNumber, fnVars, auVars, slVars, mdVars, cliVars, pipeVars>>

\* the commit fetch returns and extractPullRequest returns the record
PullRequestCommitsFetched ==
    /\ exPc = "pr.commits"
    /\ \E o \in Outcomes :
          IF o = "network" THEN PullRequestFails(o)
          ELSE /\ exRecord' = [exRecord EXCEPT !.commits = IF o = "ok" THEN 1 ELSE 0]
               /\ exPc' = "returned"
               /\ exCalls' = ExReturned(o)
    /\ UNCHANGED <<exHint, exNumber, fnVars, auVars, slVars, mdVars, cliVars, pipeVars>>

\* the issue fetch returns
IssueFetched ==
    /\ exPc = "issue.primary"
    /\ \E r \in PrimaryResponses :
          IF r.kind # "ok" THEN ExThrows(r.kind)
          ELSE /\ exRecord' = [type |-> "issue", number |-> exNumber, title |-> <<"w">>,
                               body |-> r.body, comments |-> 0, commits |-> 0]
               /\ exPc' = "issue.comments"
               /\ exCalls' = ExSent(ExReturned("ok"), "issue.comments")
    /\ UNCHANGED <<exHint, exNumber, fnVars, auVars, slVars, mdVars, cliVars, pipeVars>>

\* the comment fetch of the issue returns and extractIssue returns the record
IssueCommentsFetched ==
    /\ exPc = "issue.comments"
    /\ \E o \in Outcomes :
          IF o = "network" THEN ExThrows(o)
          ELSE /\ exRecord' = [exRecord EXCEPT !.comments = IF o = "ok" THEN 1 ELSE 0]
               /\ exPc' = "returned"
               /\ exCalls' = ExReturned(o)
    /\ UNCHANGED <<exHint, exNumber, fnVars, auVars, slVars, mdVars, cliVars, pipeVars>>

ExtractNext ==
    \/ ExtractContentCalled
    \/ PullRequestFetched
    \/ PullRequestCommentsFetched
    \/ PullRequestCommitsFetched
    \/ IssueFetched
    \/ IssueCommentsFetched

SpecExtract == ExtractInit /\ [][ExtractNext]_vars

(***************************************************************************)
(* The run.                                                                *)
(***************************************************************************)
Init ==
    /\ stage = "Created"
    /\ pending = "none"
    /\ sectionIndex = 0
    /\ config \in Configs
    /\ locals = NoContent
    /\ content = NoContent
    /\ script = NoScript
    /\ segments = <<>>
    /\ totalDuration = 0
    /\ slides = <<>>
    /\ video = NoVideo
    /\ upload = NoUpload
    /\ dirs = {}
    /\ files = {}
    /\ result = NoResult
    /\ calls = <<>>
    /\ started = <<>>
    /\ completed = <<>>
    /\ thrown = <<>>
    /\ written = {}
    /\ FnIdle
    /\ AuIdle
    /\ SlIdle
    /\ MdIdle
    /\ ExIdle
    /\ CliIdle

\* an external call is issued; `done` is the number of stages completed
Issued(log, op, idx, done) ==
    Append(log, [op |-> op, idx |-> idx, after |-> done, outcome |-> "pending"])

\* the pending call has returned with this outcome
Returned(outcome) == [calls EXCEPT ![Len(calls)].outcome = outcome]

\* the catch block with the error raised again instead of reported
Catch_Rethrow(message, onDisk) ==
    /\ stage' = "Raised"
    /\ pending' = "none"
    /\ result' = result
    /\ dirs' = dirs
    /\ files' = onDisk

\* the catch block with the intermediate directories removed
Catch_Cleanup(message, onDisk) ==
    /\ stage' = "Failed"
    /\ pending' = "none"
    /\ result' = [returned |-> TRUE, success |-> FALSE, error |-> message,
                  videoPath |-> NoFile, uploadResult |-> NoUpload]
    /\ dirs' = dirs \ IntermediateDirs
    /\ files' = {x \in onDisk : x.dir \notin IntermediateDirs}

\* the catch block: return { success: false, error: error.message, workingDir }
Catch(message, onDisk) ==
    /\ stage' = "Failed"
    /\ pending' = "none"
    /\ result' = [returned |-> TRUE, success |-> FALSE, error |-> message,
                  videoPath |-> NoFile, uploadResult |-> NoUpload]
    /\ dirs' = dirs
    /\ files' = onDisk

\* the pending call fails and the error propagates to the catch block
Fail(outcome, message) ==
    /\ calls' = Returned(outcome)
    /\ thrown' = Append(thrown, [stage |-> stage, message |-> message])
    /\ Catch(message, files)
    /\ UNCHANGED <<config, data, started, completed, written, harnessVars>>

\* the clean-up and the return of the success result
Complete(videoResult, uploadResult, onDisk) ==
    /\ stage' = "Done"
    /\ pending' = "none"
    /\ dirs' = KeptDirs(config, dirs)
    /\ files' = KeptFiles(config, onDisk)
    /\ result' = [returned |-> TRUE, success |-> TRUE, error |-> "",
                  videoPath |-> videoResult.videoPath,
                  uploadResult |-> uploadResult]

\* the directories are made and extraction sends the primary fetch
Start ==
    /\ stage = "Created"
    /\ dirs' = dirs \cup WorkingDirs
    /\ stage' = "Extracting"
    /\ started' = Append(started, "Extracting")
    /\ pending' = "tracker.primary"
    /\ calls' = Issued(calls, "tracker.primary", config.number, Len(completed))
    /\ UNCHANGED <<config, result, data, files, completed, thrown, written, harnessVars>>

\* extraction returns the record; content.json is written and the
\* completion request is sent
ExtractionReturns(comments, commits, outcome) ==
    LET record == [locals EXCEPT !.comments = comments, !.commits = commits]
    IN /\ content' = record
       /\ locals' = record
       /\ files' = files \cup {ContentFile}
       /\ written' = written \cup {ContentFile}
       /\ completed' = Append(completed, "Extracting")
       /\ started' = Append(started, "ScriptGenerating")
       /\ stage' = "ScriptGenerating"
       /\ pending' = "completion"
       /\ calls' = Issued(Returned(outcome), "completion", 0, Len(completed) + 1)
       /\ UNCHANGED <<config, result, sectionIndex, script, segments, totalDuration, slides,
                      video, upload, dirs, thrown, harnessVars>>

\* the primary fetch returns: a non-success status or a network error fails
\* the extraction, otherwise the comments are fetched
PrimaryReturns ==
    /\ pending = "tracker.primary"
    /\ \E r \in PrimaryResponses :
          IF r.kind = "status"
          THEN Fail("status", IF config.type = "pr"
                              THEN "Failed to fetch pull request"
                              ELSE "Failed to fetch issue")
          ELSE IF r.kind = "network" THEN Fail("network", "fetch failed")
          ELSE /\ locals' = [type |-> config.type, number |-> config.number,
                             title |-> <<"w">>, body |-> r.body,
                             comments |-> 0, commits |-> 0]
               /\ pending' = "tracker.comments"
               /\ calls' = Issued(Returned("ok"), "tracker.comments",
                                  config.number, Len(completed))
               /\ UNCHANGED <<stage, config, result, sectionIndex, content,
                              script, segments, totalDuration, slides, video, upload, disk,
                              started, completed, thrown, written, harnessVars>>

\* the comment fetch with a non-success status raised as an error
CommentsReturns_ThrowOnStatus ==
    /\ pending = "tracker.comments"
    /\ \E o \in Outcomes :
          IF o = "network" THEN Fail("network", "fetch failed")
          ELSE IF o = "status" THEN Fail("status", "Failed to fetch comments")
          ELSE IF config.type = "pr"
               THEN /\ locals' = [locals EXCEPT !.comments = 1]
                    /\ pending' = "tracker.commits"
                    /\ calls' = Issued(Returned(o), "tracker.commits",
                                       config.number, Len(completed))
                    /\ UNCHANGED <<stage, config, result, sectionIndex,
                                   content, script, segments, totalDuration, slides, video,
                                   upload, disk, started, completed, thrown,
                                   written, harnessVars>>
               ELSE ExtractionReturns(1, 0, o)

\* the comment fetch returns: a non-success status gives no comments
CommentsReturns ==
    /\ pending = "tracker.comments"
    /\ \E o \in Outcomes :
          IF o = "network" THEN Fail("network", "fetch failed")
          ELSE LET comments == IF o = "ok" THEN 1 ELSE 0
               IN IF config.type = "pr"
                  THEN /\ locals' = [locals EXCEPT !.comments = comments]
                       /\ pending' = "tracker.commits"
                       /\ calls' = Issued(Returned(o), "tracker.commits",
                                          config.number, Len(completed))
                       /\ UNCHANGED <<stage, config, result, sectionIndex,
                                      content, script, segments, totalDuration, slides, video,
                                      upload, disk, started, completed, thrown,
                                      written, harnessVars>>
                  ELSE ExtractionReturns(comments, 0, o)

\* the commit fetch of a pull request returns
CommitsReturns ==
    /\ pending = "tracker.commits"
    /\ \E o \in Outcomes :
          IF o = "network" THEN Fail("network", "fetch failed")
          ELSE ExtractionReturns(locals.comments, IF o = "ok" THEN 1 ELSE 0, o)

\* the completion request returns: the script is generated, normalised to
\* the ceiling and saved; audio synthesis sends its first speech call
CompletionReturns ==
    /\ pending = "completion"
    /\ \E response \in PipelineResponses :
          LET generated == generateScript(response, content)
              adjusted == validateAndAdjustScript(generated.value, MaxDuration)
              first == NextEligible(adjusted.sections, 1)
          IN IF generated.threw THEN Fail(response.kind, generated.error)
             ELSE /\ script' = adjusted
                  /\ files' = files \cup {ScriptFile}
                  /\ written' = written \cup {ScriptFile}
                  /\ IF first <= Len(adjusted.sections)
                     THEN /\ stage' = "AudioSynthesizing"
                          /\ pending' = "speech"
                          /\ sectionIndex' = first
                          /\ completed' = Append(completed, "ScriptGenerating")
                          /\ started' = Append(started, "AudioSynthesizing")
                          /\ calls' = Issued(Returned("ok"), "speech", first - 1,
                                             Len(completed) + 1)
                     ELSE /\ stage' = "SlideRendering"
                          /\ pending' = "none"
                          /\ sectionIndex' = first
                          /\ completed' = completed \o
                                 <<"ScriptGenerating", "AudioSynthesizing">>
                          /\ started' = started \o
                                 <<"AudioSynthesizing", "SlideRendering">>
                          /\ calls' = Returned("ok")
                  /\ UNCHANGED <<config, result, locals, content, segments, totalDuration,
                                 slides, video, upload, dirs, thrown, harnessVars>>

\* the speech call of the section at sectionIndex returns: a failure is
\* rethrown, otherwise the audio is saved, the segment is pushed and the loop
\* goes on to the next eligible section
SpeechReturns_ContinueOnError ==
    /\ pending = "speech"
    /\ \E o \in Outcomes :
          LET next == NextEligible(script.sections, sectionIndex + 1)
          IN /\ IF o = "ok"
                THEN /\ files' = files \cup {AudioFile(sectionIndex - 1)}
                     /\ written' = written \cup {AudioFile(sectionIndex - 1)}
                     /\ segments' = Append(segments, Segment(script.sections, sectionIndex))
                     /\ totalDuration' = totalDuration + Segment(script.sections, sectionIndex).duration
                     /\ UNCHANGED thrown
                ELSE /\ thrown' = Append(thrown, [stage |-> stage,
                                                  message |-> "OpenAI TTS API error"])
                     /\ UNCHANGED <<files, written, segments, totalDuration>>
             /\ sectionIndex' = next
             /\ IF next <= Len(script.sections)
                THEN /\ calls' = Issued(Returned(o), "speech", next - 1, Len(completed))
                     /\ UNCHANGED <<stage, pending, started, completed>>
                ELSE /\ stage' = "SlideRendering"
                     /\ pending' = "none"
                     /\ completed' = Append(completed, "AudioSynthesizing")
                     /\ started' = Append(started, "SlideRendering")
                     /\ calls' = Returned(o)
             /\ UNCHANGED <<config, result, locals, content, script, slides,
                            video, upload, dirs, harnessVars>>

\* audio synthesis with a refused speech call sent a second time
SpeechReturns_RetryOnce ==
    /\ pending = "speech"
    /\ \E o \in Outcomes :
          LET next == NextEligible(script.sections, sectionIndex + 1)
              retried == \E k \in 1..(Len(calls) - 1) :
                            calls[k].op = "speech" /\ calls[k].outcome = "status"
          IN IF o = "status" /\ ~retried
             THEN /\ calls' = Issued(Returned("status"), "speech", sectionIndex - 1,
                                     Len(completed))
                  /\ UNCHANGED <<stage, pending, config, result, data, disk,
                                 started, completed, thrown, written, harnessVars>>
             ELSE IF o = "status" THEN Fail("status", "OpenAI TTS API error")
             ELSE IF o = "network" THEN Fail("network", "fetch failed")
             ELSE /\ files' = files \cup {AudioFile(sectionIndex - 1)}
                  /\ written' = written \cup {AudioFile(sectionIndex - 1)}
                  /\ segments' = Append(segments, Segment(script.sections, sectionIndex))
                  /\ totalDuration' = totalDuration + Segment(script.sections, sectionIndex).duration
                  /\ sectionIndex' = next
                  /\ IF next <= Len(script.sections)
                     THEN /\ calls' = Issued(Returned("ok"), "speech", next - 1,
                                             Len(completed))
                          /\ UNCHANGED <<stage, pending, started, completed>>
                     ELSE /\ stage' = "SlideRendering"
                          /\ pending' = "none"
                          /\ completed' = Append(completed, "AudioSynthesizing")
                          /\ started' = Append(started, "SlideRendering")
                          /\ calls' = Returned("ok")
                  /\ UNCHANGED <<config, result, locals, content, script, slides,
                                 video, upload, dirs, thrown, harnessVars>>

SpeechReturns ==
    /\ pending = "speech"
    /\ \E o \in Outcomes :
          LET next == NextEligible(script.sections, sectionIndex + 1)
          IN IF o = "status" THEN Fail("status", "OpenAI TTS API error")
             ELSE IF o = "network" THEN Fail("network", "fetch failed")
             ELSE /\ files' = files \cup {AudioFile(sectionIndex - 1)}
                  /\ written' = written \cup {AudioFile(sectionIndex - 1)}
                  /\ segments' = Append(segments, Segment(script.sections, sectionIndex))
                  /\ totalDuration' = totalDuration + Segment(script.sections, sectionIndex).duration
                  /\ sectionIndex' = next
                  /\ IF next <= Len(script.sections)
                     THEN /\ calls' = Issued(Returned("ok"), "speech", next - 1,
                                             Len(completed))
                          /\ UNCHANGED <<stage, pending, started, completed>>
                     ELSE /\ stage' = "SlideRendering"
                          /\ pending' = "none"
                          /\ completed' = Append(completed, "AudioSynthesizing")
                          /\ started' = Append(started, "SlideRendering")
                          /\ calls' = Returned("ok")
                  /\ UNCHANGED <<config, result, locals, content, script, slides,
                                 video, upload, dirs, thrown, harnessVars>>
\* generateSlides: for each section in order the markup is built and saved
\* and the placeholder is written; an error while building a section's
\* markup ends the run; then composition starts the encoder
RenderSlides ==
    /\ stage = "SlideRendering"
    /\ pending = "none"
    /\ LET n == Len(script.sections)
           k == FirstThrowing(script.sections)
       IN IF k <= n
          THEN /\ thrown' = Append(thrown, [stage |-> stage, message |-> "TypeError"])
               /\ Catch("TypeError", files \cup SlideFiles(k - 1))
               /\ written' = written \cup SlideFiles(k - 1)
               /\ UNCHANGED <<config, data, calls, started, completed, harnessVars>>
          ELSE /\ slides' = [i \in 1..n |-> Slide(i)]
               /\ files' = files \cup SlideFiles(n)
               /\ written' = written \cup SlideFiles(n)
               /\ completed' = Append(completed, "SlideRendering")
               /\ started' = Append(started, "Composing")
               /\ stage' = "Composing"
               /\ pending' = "encoder"
               /\ calls' = Issued(calls, "encoder", 0, Len(completed) + 1)
               /\ UNCHANGED <<config, result, sectionIndex, locals, content,
                              script, segments, totalDuration, video, upload, dirs, thrown,
                              harnessVars>>

\* the encoder exits: non-zero fails the composition; otherwise the video
\* exists, and the run publishes it when configured or is complete
EncoderExits ==
    /\ pending = "encoder"
    /\ \E o \in ExitOutcomes :
          LET videoResult == [videoPath |-> VideoFile,
                              duration |-> SumSegments(segments)]
          IN IF o = "nonzero" THEN Fail("nonzero", "Video composition failed")
             ELSE /\ video' = videoResult
                  /\ written' = written \cup {VideoFile}
                  /\ completed' = Append(completed, "Composing")
                  /\ IF PublishConfigured(config)
                     THEN /\ stage' = "Publishing"
                          /\ pending' = "token"
                          /\ started' = Append(started, "Publishing")
                          /\ calls' = Issued(Returned("ok"), "token", 0,
                                             Len(completed) + 1)
                          /\ files' = files \cup {VideoFile}
                          /\ UNCHANGED <<result, dirs>>
                     ELSE /\ Complete(videoResult, NoUpload, files \cup {VideoFile})
                          /\ calls' = Returned("ok")
                          /\ UNCHANGED started
                  /\ UNCHANGED <<config, sectionIndex, locals, content, script,
                                 segments, totalDuration, slides, upload, thrown, harnessVars>>

\* getAccessToken returns; uploadVideo initiates the upload session with
\* whatever it returned (Bearer ${accessToken}), an undefined token included
TokenReturns ==
    /\ pending = "token"
    /\ \E o \in TokenOutcomes :
          IF o = "status" THEN Fail("status", "Failed to get access token")
          ELSE IF o = "network" THEN Fail("network", "fetch failed")
          ELSE /\ pending' = "upload.init"
               /\ calls' = Issued(Returned(o), "upload.init", 0, Len(completed))
               /\ UNCHANGED <<stage, config, result, data, disk, started,
                              completed, thrown, written, harnessVars>>

\* the initiation returns: without a session URL the upload fails,
\* otherwise the bytes are transferred
UploadInitReturns ==
    /\ pending = "upload.init"
    /\ \E o \in InitOutcomes :
          IF o = "status" THEN Fail("status", "Failed to initialize upload")
          ELSE IF o = "network" THEN Fail("network", "fetch failed")
          ELSE IF o = "noLocation"
          THEN Fail("noLocation", "No upload URL received from YouTube")
          ELSE /\ pending' = "upload.transfer"
               /\ calls' = Issued(Returned("ok"), "upload.transfer", 0, Len(completed))
               /\ UNCHANGED <<stage, config, result, data, disk, started,
                              completed, thrown, written, harnessVars>>

\* the transfer returns: the upload result exists; the link is posted when
\* requested, otherwise the run is complete
TransferReturns ==
    /\ pending = "upload.transfer"
    /\ \E o \in Outcomes :
          IF o = "status" THEN Fail("status", "Failed to upload video")
          ELSE IF o = "network" THEN Fail("network", "fetch failed")
          ELSE /\ upload' = Uploaded
               /\ IF config.postToGitHub
                  THEN /\ pending' = "postLink"
                       /\ calls' = Issued(Returned("ok"), "postLink",
                                          config.number, Len(completed))
                       /\ UNCHANGED <<stage, result, disk, completed>>
                  ELSE /\ Complete(video, Uploaded, files)
                       /\ calls' = Returned("ok")
                       /\ completed' = Append(completed, "Publishing")
               /\ UNCHANGED <<config, sectionIndex, locals, content, script,
                              segments, totalDuration, slides, video, started, thrown,
                              written, harnessVars>>

\* the record kind the comment of postVideoLinkToGitHub names:
\* issueNumber >= 1000 ? 'pull request' : 'issue'
commentKind(issueNumber) == IF issueNumber >= 1000 THEN "pull request" ELSE "issue"

\* postVideoLinkToGitHub with a non-success status raised as an error
PostLinkReturns_ThrowOnStatus ==
    /\ pending = "postLink"
    /\ \E o \in Outcomes :
          IF o = "network" THEN Fail("network", "fetch failed")
          ELSE IF o = "status" THEN Fail("status", "Failed to post comment to GitHub")
          ELSE /\ Complete(video, upload, files)
               /\ calls' = Returned(o)
               /\ completed' = Append(completed, "Publishing")
               /\ UNCHANGED <<config, data, started, thrown, written, harnessVars>>

\* the link post returns: a non-success status is only logged
PostLinkReturns ==
    /\ pending = "postLink"
    /\ \E o \in Outcomes :
          IF o = "network" THEN Fail("network", "fetch failed")
          ELSE /\ Complete(video, upload, files)
               /\ calls' = Returned(o)
               /\ completed' = Append(completed, "Publishing")
               /\ UNCHANGED <<config, data, started, thrown, written, harnessVars>>

Next ==
    \/ Start
    \/ PrimaryReturns
    \/ CommentsReturns
    \/ CommitsReturns
    \/ CompletionReturns
    \/ SpeechReturns
    \/ RenderSlides
    \/ EncoderExits
    \/ TokenReturns
    \/ UploadInitReturns
    \/ TransferReturns
    \/ PostLinkReturns

Spec == Init /\ [][Next]_vars

\* every external call eventually returns or fails, and the run is scheduled
SpecLive == Init /\ [][Next]_vars /\ WF_vars(Next)

(***************************************************************************)
(* The command-line entry point (cli.ts main) in front of the run: the     *)
(* arguments are validated, the two dependencies are probed, the run is    *)
(* started and the process exits with a code taken from its result.        *)
(***************************************************************************)
CliArgs ==
    [mode : {"generate", "help", "checkDeps"},
     type : {"issue", "pr", "undefined"},
     number : {0, 6},
     keepFiles : BOOLEAN]

CliEnvs ==
    [githubToken : BOOLEAN, openaiApiKey : BOOLEAN,
     youtubeClientId : BOOLEAN, youtubeClientSecret : BOOLEAN,
     youtubeRefreshToken : BOOLEAN, uploadToYouTube : BOOLEAN,
     postToGitHub : BOOLEAN]

\* the type, the number and the config main passes to generateVideoFromIssueOrPR
ConfigOf(args, env) ==
    [type |-> args.type, number |-> args.number,
     uploadToYouTube |-> env.uploadToYouTube,
     youtubeClientId |-> env.youtubeClientId,
     youtubeClientSecret |-> env.youtubeClientSecret,
     youtubeRefreshToken |-> env.youtubeRefreshToken,
     postToGitHub |-> env.postToGitHub,
     keepIntermediateFiles |-> args.keepFiles]

\* process.exit(code)
Exit(code) ==
    /\ cliPc' = "exited"
    /\ exitCode' = code

CliInit ==
    /\ cliPc = "main"
    /\ cliArgs \in CliArgs
    /\ cliEnv \in CliEnvs
    /\ cliDeps = [ffmpeg |-> "unchecked", ffprobe |-> "unchecked"]
    /\ exitCode = -1
    /\ FnIdle
    /\ AuIdle
    /\ SlIdle
    /\ MdIdle
    /\ ExIdle
    /\ PipeIdle

\* main up to the first await: help, the dependency report, or the
\* validation of the arguments and of the two required credentials
ParseArguments ==
    /\ cliPc = "main"
    /\ IF cliArgs.mode = "help" THEN Exit(0)
       ELSE IF cliArgs.mode = "checkDeps"
       THEN cliPc' = "ffmpeg" /\ UNCHANGED exitCode
       ELSE IF cliArgs.type = "undefined" \/ cliArgs.number = 0 THEN Exit(1)
       ELSE IF ~cliEnv.githubToken THEN Exit(1)
       ELSE IF ~cliEnv.openaiApiKey THEN Exit(1)
       ELSE cliPc' = "ffmpeg" /\ UNCHANGED exitCode
    /\ UNCHANGED <<cliArgs, cliEnv, cliDeps, fnVars, auVars, slVars, mdVars,
                   exVars, pipeVars>>

\* checkDependencies: `ffmpeg -version` has run
FfmpegProbed ==
    /\ cliPc = "ffmpeg"
    /\ \E found \in {"found", "missing"} : cliDeps' = [cliDeps EXCEPT !.ffmpeg = found]
    /\ cliPc' = "ffprobe"
    /\ UNCHANGED <<cliArgs, cliEnv, exitCode, fnVars, auVars, slVars, mdVars,
                   exVars, pipeVars>>

\* the run is entered: generateVideoFromIssueOrPR(type, number, config)
EnterRun ==
    /\ cliPc' = "running"
    /\ stage' = "Created"
    /\ config' = ConfigOf(cliArgs, cliEnv)
    /\ UNCHANGED <<exitCode, pending, result, data, disk, logs>>

\* the run is entered although a dependency is missing
FfprobeProbed_RunAnyway ==
    /\ cliPc = "ffprobe"
    /\ \E found \in {"found", "missing"} :
          /\ cliDeps' = [cliDeps EXCEPT !.ffprobe = found]
          /\ IF cliArgs.mode = "checkDeps"
             THEN /\ Exit(IF cliDeps.ffmpeg = "found" /\ found = "found" THEN 0 ELSE 1)
                  /\ UNCHANGED pipeVars
             ELSE EnterRun
    /\ UNCHANGED <<cliArgs, cliEnv, fnVars, auVars, slVars, mdVars, exVars>>

\* checkDependencies: `ffprobe -version` has run and allOk is known; main
\* reports it, or exits with 1, or enters the run
FfprobeProbed ==
    /\ cliPc = "ffprobe"
    /\ \E found \in {"found", "missing"} :
          LET allOk == cliDeps.ffmpeg = "found" /\ found = "found"
          IN /\ cliDeps' = [cliDeps EXCEPT !.ffprobe = found]
             /\ IF cliArgs.mode = "checkDeps"
                THEN Exit(IF allOk THEN 0 ELSE 1) /\ UNCHANGED pipeVars
                ELSE IF ~allOk THEN Exit(1) /\ UNCHANGED pipeVars
                ELSE EnterRun
    /\ UNCHANGED <<cliArgs, cliEnv, fnVars, auVars, slVars, mdVars, exVars>>

\* the run has returned its result: process.exit(result.success ? 0 : 1)
RunReturned ==
    /\ cliPc = "running"
    /\ stage \in {"Done", "Failed"}
    /\ Exit(IF result.success THEN 0 ELSE 1)
    /\ UNCHANGED <<cliArgs, cliEnv, cliDeps, fnVars, auVars, slVars, mdVars,
                   exVars, pipeVars>>

CliNext ==
    \/ ParseArguments
    \/ FfmpegProbed
    \/ FfprobeProbed
    \/ RunReturned
    \/ Next

SpecCli == CliInit /\ [][CliNext]_vars

(***************************************************************************)
(* Properties of the script functions, checked under SpecScript.           *)
(***************************************************************************)
Generated == fnPc \in {"generated", "adjusted", "readjusted"}
Adjusted == fnPc \in {"adjusted", "readjusted"}

\* estimatedDuration is a number and equals the sum of the sections'
\* durations, a section without a duration counting 0 as in the parser
DurationIsSum(s) ==
    JsStrictEq(s.estimatedDuration, SumOrZero(s.sections))

\* C7: every script returned by generateScript (parsed or fallback) and every
\* script returned by validateAndAdjustScript has estimatedDuration equal to
\* the sum of the durations of its sections.
C7_EstimatedDurationIsSum ==
    /\ Generated => DurationIsSum(fnGenerated.value)
    /\ Adjusted => DurationIsSum(fnAdjusted)
    /\ fnPc = "readjusted" => DurationIsSum(fnReadjusted)

AllNumbers(s) ==
    \A i \in 1..Len(s.sections) : IsNum(s.sections[i].duration)

\* C8: validateAndAdjustScript returns the script unchanged when its total is
\* at most the ceiling; otherwise every duration becomes
\* floor(duration * ceiling / total), the total is the sum of the scaled
\* durations and is at most the ceiling.  Stated for the scripts whose
\* durations are all numbers.
C8_ScaledByFloor ==
    Adjusted /\ AllNumbers(fnGenerated.value) =>
        LET s == fnGenerated.value
            a == fnAdjusted
            total == s.estimatedDuration.v
        IN IF total <= fnCeiling THEN a = s
           ELSE /\ Len(a.sections) = Len(s.sections)
                /\ \A i \in 1..Len(s.sections) :
                      a.sections[i].duration =
                          Num((s.sections[i].duration.v * fnCeiling) \div total)
                /\ a.estimatedDuration = SumDurations(a.sections)
                /\ JsLeq(a.estimatedDuration, Num(fnCeiling))

\* C9: validateAndAdjustScript is idempotent: applied to its own result with
\* the same ceiling it returns that result, in every duration and the total.
C9_AdjustIdempotent ==
    fnPc = "readjusted" =>
        /\ fnReadjusted.sections = fnAdjusted.sections
        /\ fnReadjusted.estimatedDuration = fnAdjusted.estimatedDuration

\* the reply holds no "{" with a "}" behind it
NoStructuredBlock(text) ==
    ~\E i, j \in 1..Len(text) : i < j /\ text[i] = "{" /\ text[j] = "}"

\* the block from the first "{" to the last "}" is not one object of members
\* (prose or a brace inside it), or its sections array holds a null
MalformedStructure(reply) ==
    /\ ~NoStructuredBlock(reply.text)
    /\ \/ \E k \in 1..Len(reply.text) :
            /\ \E i \in 1..(k - 1) : reply.text[i] = "{"
            /\ \E j \in (k + 1)..Len(reply.text) : reply.text[j] = "}"
            /\ reply.text[k] # "S"
       \/ reply.sections.kind = "hasNull"

\* the block is an object without a sections member, or sections is no array
NoSectionsArray(reply) ==
    /\ ~NoStructuredBlock(reply.text)
    /\ \/ ~\E k \in 1..Len(reply.text) : reply.text[k] = "S"
       \/ reply.sections.kind = "notArray"

Unparseable(reply) ==
    NoStructuredBlock(reply.text) \/ MalformedStructure(reply) \/ NoSectionsArray(reply)

\* C10: when the reply cannot be parsed into a script (no structured block,
\* malformed structure, no sections array) the generator does not raise and
\* returns the fallback: 3 sections intro, main, summary of 15, 120 and 30
\* seconds, total 165.
C10_FallbackOnUnparseableReply ==
    fnPc # "start" /\ fnResponse.kind = "ok" /\ Unparseable(fnResponse.reply) =>
        LET fallback == fnGenerated.value
        IN /\ ~fnGenerated.threw
           /\ Len(fallback.sections) = 3
           /\ fallback.sections[1].type = "intro"
           /\ fallback.sections[2].type = "main"
           /\ fallback.sections[3].type = "summary"
           /\ fallback.sections[1].duration = Num(15)
           /\ fallback.sections[2].duration = Num(120)
           /\ fallback.sections[3].duration = Num(30)
           /\ fallback.estimatedDuration = Num(165)

\* a reply whose block is an object without sections has been parsed
C10_Witness ==
    /\ fnPc = "generated"
    /\ fnResponse.kind = "ok"
    /\ fnResponse.reply.text = <<"p", "{", "}">>
    /\ fnGenerated.value.estimatedDuration = Num(165)

(***************************************************************************)
(* Properties of the run, checked under Spec (C3 under SpecLive).          *)
(***************************************************************************)
IsPrefix(s, t) == Len(s) <= Len(t) /\ SubSeq(t, 1, Len(s)) = s

Rank(stg) == CHOOSE k \in 1..Len(StageOrder) : StageOrder[k] = stg

\* the stage an external call belongs to
StageOfOp(op) ==
    IF op \in {"tracker.primary", "tracker.comments", "tracker.commits"} THEN "Extracting"
    ELSE IF op = "completion" THEN "ScriptGenerating"
    ELSE IF op = "speech" THEN "AudioSynthesizing"
    ELSE IF op = "encoder" THEN "Composing"
    ELSE "Publishing"

PublishOps == {"token", "upload.init", "upload.transfer", "postLink"}

AllCredentials(cfg) ==
    cfg.youtubeClientId /\ cfg.youtubeClientSecret /\ cfg.youtubeRefreshToken

Running == stage \in {StageOrder[k] : k \in 1..Len(StageOrder)}
Terminal == stage \in {"Done", "Failed"}

\* C1: the stages start in the order extraction, script generation, audio
\* synthesis, slide rendering, composition, optional publishing; a stage
\* starts only after its predecessor has completed successfully (every
\* external call is issued when exactly the stages before its own have
\* completed); once a stage has failed no later stage and no external call of
\* a later stage is started.
C1_StagesInOrder ==
    /\ IsPrefix(started, StageOrder)
    /\ IsPrefix(completed, started)
    /\ Len(started) <= Len(completed) + 1
    /\ Running => /\ started # <<>>
                  /\ started[Len(started)] = stage
                  /\ Len(completed) = Len(started) - 1
    /\ \A k \in 1..Len(calls) :
          /\ Rank(StageOfOp(calls[k].op)) = calls[k].after + 1
          /\ Rank(StageOfOp(calls[k].op)) <= Len(started)
    /\ thrown # <<>> =>
          /\ stage = "Failed"
          /\ pending = "none"
          /\ Len(thrown) = 1
          /\ started[Len(started)] = thrown[1].stage
          /\ Len(completed) = Len(started) - 1
          /\ \A k \in 1..Len(calls) :
                /\ Rank(StageOfOp(calls[k].op)) <= Rank(thrown[1].stage)
                /\ calls[k].outcome # "pending"

\* the speech call of the second section failed after the first succeeded
C1_Witness ==
    /\ stage = "Failed"
    /\ thrown # <<>>
    /\ thrown[1].stage = "AudioSynthesizing"
    /\ Len(segments) = 1
    /\ Len(script.sections) = 2

\* C2: when extraction, script generation, audio synthesis, slide rendering
\* or composition fails, the run ends Failed, the result has success = false
\* and the message of the error, and nothing in the working directory is
\* deleted: the audio and slides directories and every file written so far
\* are still there.
C2_FailureKeepsWorkingDir ==
    thrown # <<>> /\ thrown[1].stage \in {StageOrder[k] : k \in 1..5} =>
        /\ stage = "Failed"
        /\ result.returned
        /\ ~result.success
        /\ result.error = thrown[1].message
        /\ IntermediateDirs \subseteq dirs
        /\ written \subseteq files

\* the encoder exited non-zero after audio and slides had been written
C2_Witness ==
    /\ stage = "Failed"
    /\ thrown # <<>>
    /\ thrown[1].stage = "Composing"
    /\ result.error = "Video composition failed"
    /\ AudioFile(0) \in files
    /\ SlideHtml(0) \in files

\* C3: when every external call eventually returns or fails, the run
\* eventually is in a terminal state and stays in it; Done goes with
\* success = true and Failed with success = false; every error of a stage is
\* reported in the result, the function does not raise.
C3_TerminatesWithResult ==
    /\ <>[](Terminal /\ result.returned)
    /\ [](stage = "Done" => result.returned /\ result.success)
    /\ [](stage = "Failed" => result.returned /\ ~result.success)
    /\ [](thrown # <<>> => stage = "Failed" /\ result.error = thrown[1].message)
    /\ [][Terminal => stage' = stage /\ result' = result]_vars

\* an error of the publishing stage has been reported as a result
C3_Witness ==
    /\ stage = "Failed"
    /\ result.returned
    /\ thrown # <<>>
    /\ thrown[1].stage = "Publishing"
    /\ thrown[1].message = "No upload URL received from YouTube"

\* C4: publishing (the stage and each of its calls, the link post included)
\* happens only with all three credentials; when one is missing a run whose
\* composition succeeded is Done at once with success = true, no upload
\* result and the video path.
C4_PublishOnlyWithCredentials ==
    /\ (\/ stage = "Publishing"
        \/ \E k \in 1..Len(started) : started[k] = "Publishing"
        \/ \E k \in 1..Len(calls) : calls[k].op \in PublishOps)
          => AllCredentials(config)
    /\ ~AllCredentials(config) /\ Len(completed) >= 5 =>
          /\ stage = "Done"
          /\ result.returned
          /\ result.success
          /\ ~result.uploadResult.defined
          /\ result.videoPath = VideoFile
          /\ VideoFile \in files

\* upload requested with two of the three credentials: Done without upload
C4_Witness ==
    /\ stage = "Done"
    /\ config.uploadToYouTube
    /\ config.youtubeClientId
    /\ config.youtubeClientSecret
    /\ ~config.youtubeRefreshToken
    /\ config.postToGitHub
    /\ ~result.uploadResult.defined

\* C5: the audio and slides directories (and the files in them) are missing
\* only when the run is Done and retention was not requested; the video,
\* content.json and script.json, once written, exist in every state.
C5_CleanupOnlyAtDone ==
    /\ started # <<>> /\ ~(IntermediateDirs \subseteq dirs) =>
          stage = "Done" /\ ~config.keepIntermediateFiles
    /\ \A f \in written \ files :
          /\ f.dir \in IntermediateDirs
          /\ stage = "Done"
          /\ ~config.keepIntermediateFiles

\* a run is Done with the intermediate files removed and the rest kept
C5_Witness ==
    /\ stage = "Done"
    /\ ~config.keepIntermediateFiles
    /\ dirs = WorkingDirs \ IntermediateDirs
    /\ AudioFile(0) \in written \ files
    /\ {VideoFile, ContentFile, ScriptFile} \subseteq files

\* C6: when the upload succeeded and the link post returns a non-success
\* status, the run is Done with success = true and the upload result, and
\* no error was raised.
C6_LinkPostStatusNotFatal ==
    /\ calls # <<>>
    /\ calls[Len(calls)].op = "postLink"
    /\ calls[Len(calls)].outcome = "status"
    => /\ stage = "Done"
       /\ result.returned
       /\ result.success
       /\ result.uploadResult.defined
       /\ thrown = <<>>

\* the link post returned a non-success status after a successful upload
C6_Witness ==
    /\ stage = "Done"
    /\ upload.defined
    /\ calls # <<>>
    /\ calls[Len(calls)].op = "postLink"
    /\ calls[Len(calls)].outcome = "status"
    /\ result.success

(***************************************************************************)
(* Further properties of the script functions, checked under SpecScript.   *)
(***************************************************************************)
\* C11: generateScript raises only when the completion request fails (a
\* network error or a non-success status): for a request that returned a
\* success status it returns a script, whatever the response holds.
C11_RaisesOnlyOnRequestFailure ==
    fnPc # "start" /\ fnResponse.kind \notin {"network", "status"} =>
        ~fnGenerated.threw

\* braces opened minus braces closed in text[i..j]
Depth(text, i, j) ==
    Cardinality({k \in i..j : text[k] = "{"}) - Cardinality({k \in i..j : text[k] = "}"})

\* text[i..j] is a balanced block: it opens at i and first closes at j
Balanced(text, i, j) ==
    /\ text[i] = "{"
    /\ Depth(text, i, j) = 0
    /\ \A k \in i..(j - 1) : Depth(text, i, k) > 0

\* the reply holds a balanced block and the first one is an object with a
\* sections array
WellFormedBlock(reply) ==
    /\ reply.sections.kind = "array"
    /\ \E i, j \in 1..Len(reply.text) :
          /\ Balanced(reply.text, i, j)
          /\ \A a, b \in 1..Len(reply.text) : Balanced(reply.text, a, b) => i <= a
          /\ JsonValid(SubSeq(reply.text, i, j))
          /\ HasSections(SubSeq(reply.text, i, j))

\* C12: for every reply that holds a well-formed script block, with prose
\* (braces included) before or after it, the parsed script has the section
\* count and the total duration of that block and is not the fallback.
C12_FirstBalancedBlockParsed ==
    fnPc # "start" /\ fnResponse.kind = "ok" /\ WellFormedBlock(fnResponse.reply) =>
        /\ ~fnGenerated.threw
        /\ Len(fnGenerated.value.sections) = Len(fnResponse.reply.sections.items)
        /\ fnGenerated.value.sections = fnResponse.reply.sections.items
        /\ JsStrictEq(fnGenerated.value.estimatedDuration,
                      SumOrZero(fnResponse.reply.sections.items))

(***************************************************************************)
(* Further properties of the run, checked under Spec.                      *)
(***************************************************************************)
\* a narration that is absent, empty or made of whitespace only
BlankNarration(section) ==
    \/ section.narration.t # "string"
    \/ \A i \in 1..Len(section.narration.s) : section.narration.s[i] = "s"

\* C13: after successful audio synthesis and slide rendering there are at
\* most as many audio segments as sections, exactly as many if and only if no
\* section has a blank or whitespace-only narration, and exactly as many
\* slides as sections.
C13_SegmentAndSlideCounts ==
    Len(completed) >= 4 =>
        /\ Len(segments) <= Len(script.sections)
        /\ (Len(segments) = Len(script.sections)) <=>
              (\A i \in 1..Len(script.sections) : ~BlankNarration(script.sections[i]))
        /\ Len(slides) = Len(script.sections)

\* slides rendered for two sections of which one was skipped by the audio
C13_Witness ==
    /\ stage = "Composing"
    /\ Len(script.sections) = 2
    /\ Len(segments) = 1
    /\ Len(slides) = 2
    /\ script.sections[2].narration = Str(<<"s">>)

\* C14: when the speech call of a section returns a non-success response no
\* speech call is made for a later section, neither slide rendering nor
\* composition is started, and the run ends Failed.
C14_SpeechFailureAborts ==
    \A k \in 1..Len(calls) :
        calls[k].op = "speech" /\ calls[k].outcome = "status" =>
            /\ k = Len(calls)
            /\ stage = "Failed"
            /\ result.returned
            /\ ~result.success
            /\ \A j \in 1..Len(started) : started[j] \notin {"SlideRendering", "Composing"}
            /\ slides = <<>>
            /\ \A f \in written : f.dir # "slides"

\* the speech call of the first section failed and a later section is eligible
C14_Witness ==
    /\ stage = "Failed"
    /\ calls[Len(calls)].op = "speech"
    /\ calls[Len(calls)].idx = 0
    /\ calls[Len(calls)].outcome = "status"
    /\ NextEligible(script.sections, 2) <= Len(script.sections)

(***************************************************************************)
(* Properties of estimateAudioDuration, checked under SpecAudio.           *)
(***************************************************************************)
\* the whitespace-separated words of a text: its runs of word characters
WordsIn(chars) ==
    Cardinality({i \in 1..Len(chars) :
                    chars[i] = "w" /\ (i = 1 \/ chars[i - 1] = "s")})

\* C15: the estimate is ceil(words / (2.5 * speed)) with words the number of
\* whitespace-separated words of the text, also when the text starts or ends
\* with whitespace; at twice the speed the estimate is half of it, rounded up.
\* Stated for the texts that hold a word, the ones audio synthesis passes.
C15_EstimateIsCeilOfWordsOverRate ==
    /\ auPc \in {"estimated", "doubled"} /\ WordsIn(auText) > 0 =>
          auEstimate = (8 * WordsIn(auText) + 5 * auSpeed - 1) \div (5 * auSpeed)
    /\ auPc = "doubled" => 2 * auDoubled \in {auEstimate, auEstimate + 1}

\* the sum of the durations of the audio segments
SegmentTotal ==
    LET sum[k \in 0..Len(segments)] ==
            IF k = 0 THEN 0 ELSE sum[k - 1] + segments[k].duration
    IN sum[Len(segments)]

\* C16: in a run that is Done the reported video duration is the sum of the
\* estimated durations of the audio segments and equals the totalDuration of
\* audio synthesis; each segment's duration is the estimate computed from its
\* text, nothing measured enters.
C16_DurationIsSumOfEstimates ==
    stage = "Done" =>
        /\ video.duration = SegmentTotal
        /\ totalDuration = SegmentTotal
        /\ \A k \in 1..Len(segments) :
              segments[k].duration = estimateAudioDuration(segments[k].text, 4)

\* a run is Done with the three segments of the fallback script
C16_Witness ==
    /\ stage = "Done"
    /\ Len(segments) = 3
    /\ video.duration = totalDuration
    /\ video.duration > 3

\* the filter graph of the command composition runs
FilterGraph == buildFilterComplex(segments, slides, Fps)

\* C17: composition pairs each audio segment with the slide of the same
\* section: the slide looped for the duration of a segment has the
\* sectionIndex of that segment, also when a section has a blank narration.
C17_SlideMatchesSegment ==
    Len(completed) >= 4 =>
        \A k \in 1..Len(FilterGraph.loops) :
            slides[FilterGraph.loops[k].input + 1].sectionIndex
                = segments[FilterGraph.loops[k].audio + 1].sectionIndex

\* C18: when slide rendering has returned, a file exists at the imagePath of
\* every slide record of its result.
C18_SlideImagesExist ==
    stage = "Composing" =>
        \A k \in 1..Len(slides) : slides[k].imagePath \in files

(***************************************************************************)
(* Properties of generateSlideHTML, checked under SpecSlides.              *)
(***************************************************************************)
\* C19: in the markup of every section type every text taken from the script
\* (title, heading, code snippet, bullet points, visual notes, narration
\* excerpt) has been escaped: no embedded text holds a raw markup character.
C19_EmbeddedTextEscaped ==
    slPc = "built" =>
        \A k \in 1..Len(slMarkup) :
            \A i \in 1..Len(slMarkup[k].text) : slMarkup[k].text[i] # "<"

(***************************************************************************)
(* Properties of publishing, checked under Spec.                           *)
(***************************************************************************)
UploadOps == {"token", "upload.init", "upload.transfer"}

UploadFailures == {"status", "network", "noLocation"}

\* C20: the initiation is sent only after the token exchange yielded a token
\* and the transfer only after the initiation yielded a session URL; a failed
\* token exchange, initiation (a missing session URL included) or transfer is
\* the last call of the run, which ends Failed with success = false.
C20_UploadStepsInOrder ==
    \A k \in 1..Len(calls) :
        /\ calls[k].op = "upload.init" =>
              /\ k > 1
              /\ calls[k - 1].op = "token"
              /\ calls[k - 1].outcome = "ok"
        /\ calls[k].op = "upload.transfer" =>
              /\ k > 1
              /\ calls[k - 1].op = "upload.init"
              /\ calls[k - 1].outcome = "ok"
        /\ calls[k].op \in UploadOps /\ calls[k].outcome \in UploadFailures =>
              /\ k = Len(calls)
              /\ stage = "Failed"
              /\ result.returned
              /\ ~result.success

(***************************************************************************)
(* Properties of generateYouTubeMetadata, checked under SpecMetadata.      *)
(***************************************************************************)
\* the keyword occurs, letter case aside, in the title, the description or
\* the narration of a section
Occurs(keyword, s) ==
    \/ includes(toLowerCase(s.title), keyword)
    \/ includes(toLowerCase(s.description), keyword)
    \/ \E i \in 1..Len(s.sections) : includes(toLowerCase(s.sections[i].narration), keyword)

RECURSIVE SecondsBefore(_, _)
\* the durations of the sections before the i-th one, added up (a section
\* without a duration adds nothing)
SecondsBefore(sections, i) ==
    IF i <= 1 THEN 0
    ELSE SecondsBefore(sections, i - 1) + JsOrZero(sections[i - 1].duration).v

\* minutes, a colon and two digits of seconds
MinutesSeconds(total) ==
    toString(total \div 60)
        \o <<":", DigitChars[((total % 60) \div 10) + 1], DigitChars[((total % 60) % 10) + 1]>>

\* C22: in the timeline of the description the timestamp of section i is the
\* sum of the durations of the sections before it, written as minutes, a
\* colon and two digits of seconds; durations of 15, 120 and 30 seconds give
\* 0:00, 0:15 and 2:15.
C22_TimestampsAreRunningSums ==
    mdPc = "built" =>
        /\ Len(mdMetadata.timeline) = Len(mdScript.sections)
        /\ \A i \in 1..Len(mdScript.sections) :
              mdMetadata.timeline[i] = MinutesSeconds(SecondsBefore(mdScript.sections, i))
        /\ ( /\ Len(mdScript.sections) = 3
             /\ mdScript.sections[1].duration = Num(15)
             /\ mdScript.sections[2].duration = Num(120)
             /\ mdScript.sections[3].duration = Num(30) )
              => mdMetadata.timeline = << <<"0", ":", "0", "0">>,
                                          <<"0", ":", "1", "5">>,
                                          <<"2", ":", "1", "5">> >>

(***************************************************************************)
(* Properties of extractContent, checked under SpecExtract.                *)
(***************************************************************************)
\* the fetch made extractPullRequest or extractIssue throw: any network
\* error, or a non-success status of the record fetch itself
FetchFailed(call) ==
    \/ call.outcome = "network"
    \/ call.outcome = "status" /\ call.op \in {"pr.primary", "issue.primary"}

\* C23: without a kind hint the pull request fetch comes first and an issue
\* fetch is sent only after the pull request extraction failed; with a hint
\* only fetches of that kind are sent, and a failing one ends extractContent
\* with the error thrown.
C23_HintSelectsFetch ==
    /\ exHint = "undefined" =>
          /\ exCalls # <<>> => exCalls[1].op = "pr.primary"
          /\ \A k \in 1..Len(exCalls) :
                exCalls[k].op \in IssueOps =>
                    \E j \in 1..(k - 1) :
                        exCalls[j].op \in PrOps /\ FetchFailed(exCalls[j])
    /\ exHint = "pr" =>
          /\ \A k \in 1..Len(exCalls) : exCalls[k].op \in PrOps
          /\ exPc = "returned" => exRecord.type = "pr"
    /\ exHint = "issue" =>
          /\ \A k \in 1..Len(exCalls) : exCalls[k].op \in IssueOps
          /\ exPc = "returned" => exRecord.type = "issue"
    /\ exHint # "undefined" =>
          \A k \in 1..Len(exCalls) :
              FetchFailed(exCalls[k]) => k = Len(exCalls) /\ exPc = "thrown"

\* no hint: the pull request fetch is refused and the issue is returned
C23_Witness ==
    /\ exHint = "undefined"
    /\ exPc = "returned"
    /\ exRecord.type = "issue"
    /\ Len(exCalls) = 3
    /\ exCalls[1] = [op |-> "pr.primary", outcome |-> "status"]

(***************************************************************************)
(* Properties of extraction inside the run, checked under Spec.            *)
(***************************************************************************)
\* C24: a non-success status of the record fetch fails the extraction and
\* the run ends Failed; a non-success status of the comment or commit fetch
\* does not: the next call is issued and the record carries an empty comment
\* list, respectively an empty commit list.
C24_SubFetchStatusNotFatal ==
    \A k \in 1..Len(calls) :
        /\ calls[k].op = "tracker.primary" /\ calls[k].outcome = "status" =>
              /\ k = Len(calls)
              /\ stage = "Failed"
              /\ result.returned
              /\ ~result.success
              /\ content = NoContent
        /\ calls[k].op = "tracker.comments" /\ calls[k].outcome = "status" =>
              /\ k < Len(calls)
              /\ calls[k + 1].op = IF config.type = "pr" THEN "tracker.commits"
                                                         ELSE "completion"
              /\ locals.comments = 0
              /\ content # NoContent => content.comments = 0
        /\ calls[k].op = "tracker.commits" /\ calls[k].outcome = "status" =>
              /\ k < Len(calls)
              /\ calls[k + 1].op = "completion"
              /\ content.type = "pr"
              /\ content.commits = 0

\* a pull request whose comment and commit fetches were both refused, and
\* the run is Done
C24_Witness ==
    /\ stage = "Done"
    /\ content.type = "pr"
    /\ content.comments = 0
    /\ content.commits = 0
    /\ calls[2].op = "tracker.comments"
    /\ calls[2].outcome = "status"
    /\ calls[3].op = "tracker.commits"
    /\ calls[3].outcome = "status"

(***************************************************************************)
(* Properties of the command-line entry point, checked under SpecCli.      *)
(***************************************************************************)
\* no stage of the run has started and no external call was made
NothingStarted ==
    /\ stage = "Idle"
    /\ started = <<>>
    /\ calls = <<>>
    /\ dirs = {}

\* C25: the entry point exits with 0 when the run's result is a success and
\* with 1 when the run failed, when the encoder or its probe is missing, or
\* when it was asked for a video without one of the two required
\* credentials; with a missing dependency or credential nothing of the run
\* has started, and the run starts only with both dependencies found and both
\* credentials set.
C25_ExitCodes ==
    /\ cliPc = "exited" /\ stage = "Done" => exitCode = 0
    /\ cliPc = "exited" /\ stage = "Failed" => exitCode = 1
    /\ cliPc = "exited" /\ "missing" \in {cliDeps.ffmpeg, cliDeps.ffprobe} =>
          exitCode = 1 /\ NothingStarted
    /\ cliPc = "exited" /\ cliArgs.mode = "generate"
          /\ (~cliEnv.githubToken \/ ~cliEnv.openaiApiKey) =>
          exitCode = 1 /\ NothingStarted
    /\ cliPc # "idle" /\ ~NothingStarted =>
          /\ cliDeps.ffmpeg = "found"
          /\ cliDeps.ffprobe = "found"
          /\ cliEnv.githubToken
          /\ cliEnv.openaiApiKey

\* both credentials set, the encoder found and its probe missing
C25_Witness ==
    /\ cliPc = "exited"
    /\ cliArgs.mode = "generate"
    /\ cliEnv.githubToken
    /\ cliEnv.openaiApiKey
    /\ cliDeps.ffmpeg = "found"
    /\ cliDeps.ffprobe = "missing"
    /\ exitCode = 1
    /\ NothingStarted

(***************************************************************************)
(* Properties of the calls of a run, checked under Spec.                   *)
(***************************************************************************)
\* C26: nothing is sent twice in a run: there is at most one speech call per
\* section and at most one call of every other external operation (record
\* fetch, completion request, encoder, token exchange, upload initiation,
\* transfer, link post), whether or not a call fails.
C26_NoCallRepeated ==
    \A i, j \in 1..Len(calls) :
        /\ calls[i].op = calls[j].op /\ calls[i].idx = calls[j].idx => i = j
        /\ calls[i].op = calls[j].op /\ calls[i].op # "speech" => i = j

\* the second speech call of a run was refused: the run has failed with one
\* call for each of the two sections
C26_Witness ==
    /\ stage = "Failed"
    /\ Len(calls) >= 2
    /\ calls[Len(calls)].op = "speech"
    /\ calls[Len(calls)].outcome = "status"
    /\ calls[Len(calls)].idx = 1
    /\ calls[Len(calls) - 1].op = "speech"
    /\ calls[Len(calls) - 1].outcome = "ok"

(***************************************************************************)
(* The run on the fallback script, checked under Spec.                     *)
(***************************************************************************)
\* the fallback script is in use, no upload credential is set and no
\* external call has failed or was refused
FallbackRun ==
    /\ content # NoContent
    /\ script = createFallbackScript(content)
    /\ ~config.youtubeClientId
    /\ ~config.youtubeClientSecret
    /\ ~config.youtubeRefreshToken
    /\ \A k \in 1..Len(calls) : calls[k].outcome \in {"ok", "pending"}

\* C27: a run on the fallback script, for every record (one with an empty
\* body too), with every external call succeeding and no upload credentials
\* does not fail and never publishes; once composition has started there are
\* exactly 3 audio segments and 3 slides; when it is Done the video's
\* duration is the sum of the 3 estimates, the result is a success without
\* upload result and its video path names the video file, which exists.
C27_FallbackRunEndToEnd ==
    FallbackRun =>
        /\ stage \notin {"Failed", "Publishing"}
        /\ stage \in {"Composing", "Done"} =>
              /\ Len(segments) = 3
              /\ Len(slides) = 3
        /\ stage = "Done" =>
              /\ video.duration =
                    estimateAudioDuration(script.sections[1].narration.s, 4)
                    + estimateAudioDuration(script.sections[2].narration.s, 4)
                    + estimateAudioDuration(script.sections[3].narration.s, 4)
              /\ result.returned
              /\ result.success
              /\ ~result.uploadResult.defined
              /\ result.videoPath = VideoFile
              /\ VideoFile \in files

\* the fallback run of a record with an empty body is Done
C27_Witness ==
    /\ FallbackRun
    /\ stage = "Done"
    /\ content.body = <<>>
    /\ Len(segments) = 3

(***************************************************************************)
(* Properties of audio synthesis inside the run, checked under Spec.       *)
(***************************************************************************)
\* the speech calls of the log, as positions in it
SpeechCalls == {k \in 1..Len(calls) : calls[k].op = "speech"}

\* C28: the speech calls are sent in script order; a section whose narration
\* is absent, empty or whitespace gets no speech call, no audio file and no
\* segment; every segment's sectionIndex is the position of a section with
\* narration whose narration is the segment's text, and the segment list is
\* strictly increasing in sectionIndex; after audio synthesis every section
\* with narration has its segment.
C28_SegmentsFollowSections ==
    /\ \A k, l \in SpeechCalls : k < l => calls[k].idx < calls[l].idx
    /\ \A p \in 1..Len(script.sections) :
          BlankNarration(script.sections[p]) =>
              /\ \A k \in SpeechCalls : calls[k].idx # p - 1
              /\ AudioFile(p - 1) \notin written
              /\ \A k \in 1..Len(segments) : segments[k].sectionIndex # p - 1
    /\ \A k \in 1..Len(segments) :
          LET p == segments[k].sectionIndex + 1
          IN /\ p \in 1..Len(script.sections)
             /\ ~BlankNarration(script.sections[p])
             /\ segments[k].text = script.sections[p].narration.s
             /\ \E c \in SpeechCalls : calls[c].idx = p - 1 /\ calls[c].outcome = "ok"
    /\ \A k, l \in 1..Len(segments) :
          k < l => segments[k].sectionIndex < segments[l].sectionIndex
    /\ Len(completed) >= 3 =>
          \A p \in 1..Len(script.sections) :
              ~BlankNarration(script.sections[p]) =>
                  \E k \in 1..Len(segments) : segments[k].sectionIndex = p - 1

\* a script whose first section has no narration: after audio synthesis the
\* only segment belongs to the second section
C28_Witness ==
    /\ Len(completed) >= 3
    /\ Len(script.sections) = 2
    /\ BlankNarration(script.sections[1])
    /\ Len(segments) = 1
    /\ segments[1].sectionIndex = 1
    /\ segments[1].text = script.sections[2].narration.s
    /\ AudioFile(1) \in written

\* C29: the filter graph composition builds for at least one audio segment
\* has one looped stream per audio segment, in the order of the segment
\* list, each looped for that segment's duration times fps frames, and the
\* concatenation references exactly the labels of these streams, in order,
\* also when there are fewer audio segments than slides.
C29_ConcatConsumesProducedStreams ==
    Len(completed) >= 4 /\ segments # <<>> =>
        /\ Len(FilterGraph.loops) = Len(segments)
        /\ \A k \in 1..Len(FilterGraph.loops) :
              /\ FilterGraph.loops[k].audio = k - 1
              /\ FilterGraph.loops[k].frames = Fps * segments[k].duration
        /\ FilterGraph.concat =
              [k \in 1..Len(FilterGraph.loops) |-> FilterGraph.loops[k].label]

(***************************************************************************)
(* Properties of the confirmation comment, checked under Spec.             *)
(***************************************************************************)
\* C30: the comment posted back names the kind the run was started for:
\* 'pull request' when the kind is pr and 'issue' when it is issue.
C30_CommentNamesRecordKind ==
    \A k \in 1..Len(calls) :
        calls[k].op = "postLink" =>
            commentKind(calls[k].idx)
                = IF config.type = "pr" THEN "pull request" ELSE "issue"

====
